---- MODULE Spec2Model ----
(***************************************************************************)
(* A model of orm-dao-simplified: the transaction coordinator              *)
(* (TransactionManager.runInTransaction), the condition compiler and the   *)
(* statement builders of GenericDAO, and the Entity constructor.           *)
(*                                                                         *)
(* SQL text is modelled as a sequence of chunks: every placeholder ("??"   *)
(* for an identifier, "?" for a value) is a chunk of its own, and the      *)
(* literal text between placeholders is kept chunk by chunk as the source  *)
(* writes it (blanks included).  The parameter list is a sequence of       *)
(* tagged values.                                                          *)
(***************************************************************************)
EXTENDS Integers, Sequences, FiniteSets, TLC

VARIABLES
    \* ---- runInTransaction (one call at a time) ----
    txPc,        \* position of the call inside runInTransaction
    connection,  \* the local `connection`: "null" or "conn"
    txLog,       \* operations performed on the connection, in order
    txResult,    \* the value the callback resolved with ("none" before)
    txError,     \* the error caught by the catch block ("none" if none)
    txFailed,    \* which awaited step rejected first ("none" if none)
    txRollback,  \* how connection.rollback() settled: "none", "ok" or its error
    txOutcome,   \* how the call settled: [kind, value]
    txQueries,   \* statements the callback has run on the connection
    \* ---- buildWhereClause as a function of its arguments ----
    cond,        \* the condition handed to buildWhereClause
    condTable,   \* the EntityName argument handed with it
    built,       \* what the call produced: [sql, params], NotBuilt before
    \* ---- GenericDAO (one call at a time, each call atomic) ----
    op,          \* the DAO method last called, with its arguments
    dispatched,  \* statements handed to connection.query by that call
    ret,         \* what the call returned or raised: [kind, value]
    \* ---- one deleteWhere among other calls on the same table ----
    tableRows,   \* the stored rows: id -> "absent", "matching" or "other"
    delPc,       \* position of the deleteWhere call: "select", "delete", "done"
    delRows,     \* ids of the rows its SELECT answered with
    removed,     \* ids of the rows its DELETE removed
    others,      \* statements other calls have run on the table
    \* ---- one entity instance in a process ----
    timezone,    \* the process's offset from UTC in hours (east positive)
    ent,         \* the own properties of the instance
    rec,         \* what toDBRecord returned last, NotSerialized before
    updates,     \* update calls made on the instance
    hydrated     \* the fields init gives a new instance for the record in rec

txVars  == <<txPc, connection, txLog, txResult, txError, txFailed, txRollback,
             txOutcome, txQueries>>
whereVars == <<cond, condTable, built>>
daoVars == <<op, dispatched, ret>>
storeVars == <<tableRows, delPc, delRows, removed, others>>
entVars == <<timezone, ent, rec, updates, hydrated>>
vars    == <<txVars, whereVars, daoVars, storeVars, entVars>>

(***************************************************************************)
(* Generic helpers                                                         *)
(***************************************************************************)
Count(s, x) == Cardinality({i \in 1..Len(s) : s[i] = x})

Positions(s, x) == {i \in 1..Len(s) : s[i] = x}

\* every occurrence of a is before every occurrence of b
Before(s, a, b) == \A i \in Positions(s, a), j \in Positions(s, b) : i < j

(***************************************************************************)
(* JavaScript values, tagged with their type                               *)
(***************************************************************************)
Num(n) == [t |-> "number", v |-> n]
Str(x) == [t |-> "string", v |-> x]
Arr(x) == [t |-> "array", v |-> x]
Null      == [t |-> "null", v |-> "null"]
Undefined == [t |-> "undefined", v |-> "undefined"]

(***************************************************************************)
(* GenericDAO: the condition compiler                                      *)
(***************************************************************************)
\* this.entityName of the DAO under study (User.EntityName in the README)
entityName == "users"

\* the tables a statement may name: the DAO's own and two related ones
Tables == {"users", "posts", "tags"}

\* bound: nodes (comparisons and composites) of a condition tree
MaxNodes == 4

WhereOperators == {"=", "!=", ">", "<", ">=", "<=", "LIKE", "IN", "IS"}
Connectors     == {"AND", "OR"}

\* comparisons the callers pass: one without operator, one with, one IN
WhereConditions ==
    { [field |-> "id", value |-> Num(1)],
      [field |-> "age", operator |-> ">", value |-> Num(2)],
      [field |-> "id", operator |-> "IN", value |-> Arr(<<Num(1), Num(2)>>)] }

RECURSIVE WhereOfSize(_)
RECURSIVE PrepositionsOfSize(_)

\* the lists of condition trees that hold n nodes together
PrepositionsOfSize(n) ==
    IF n = 0 THEN { << >> }
    ELSE UNION { { <<w>> \o rest : w \in WhereOfSize(k), rest \in PrepositionsOfSize(n - k) }
                 : k \in 1..n }

\* WhereCondition | WhereComposite with exactly n nodes
WhereOfSize(n) ==
    (IF n = 1 THEN WhereConditions ELSE {})
      \cup { [connectors |-> c, prepositions |-> ps]
              : c \in Connectors, ps \in PrepositionsOfSize(n - 1) }

WhereTrees == UNION { WhereOfSize(n) : n \in 1..MaxNodes }

\* a value written out as SQL text
literal(value) ==
    IF value.t = "string" THEN "'" \o value.v \o "'"
    ELSE IF value.t = "number" THEN (IF value.v = 1 THEN "1" ELSE "2")
    ELSE "(1, 2)"

\* a slip: the value is written into the SQL text instead of being bound
whereConditionInlinesValue(where, params, EntityName) ==
    LET operator == IF "operator" \in DOMAIN where THEN where.operator ELSE "="
    IN  [ sql    |-> <<"??", ".", "??", " ", operator, " ", literal(where.value)>>,
          params |-> params \o <<Str(EntityName), Str(where.field), where.value>> ]

\* a slip: the value is pushed before the identifiers it belongs to
whereConditionValueFirst(where, params, EntityName) ==
    LET operator == IF "operator" \in DOMAIN where THEN where.operator ELSE "="
    IN  [ sql    |-> IF operator # "IN"
                     THEN <<"??", ".", "??", " ", operator, " ", "?">>
                     ELSE <<"??", ".", "??", " ", operator, " (", "?", ")">>,
          params |-> params \o <<where.value, Str(EntityName), Str(where.field)>> ]

\* buildWhereClause, lines 56-61: a single comparison
whereCondition(where, params, EntityName) ==
    LET operator == IF "operator" \in DOMAIN where THEN where.operator ELSE "="
    IN  [ sql    |-> IF operator # "IN"
                     THEN <<"??", ".", "??", " ", operator, " ", "?">>
                     ELSE <<"??", ".", "??", " ", operator, " (", "?", ")">>,
          params |-> params \o <<Str(EntityName), Str(where.field), where.value>> ]

\* Array.prototype.join of chunk lists
RECURSIVE arrayJoin(_, _)
arrayJoin(clauses, separator) ==
    IF clauses = << >> THEN << >>
    ELSE IF Len(clauses) = 1 THEN clauses[1]
    ELSE clauses[1] \o separator \o arrayJoin(Tail(clauses), separator)

RECURSIVE buildWhereClause(_, _, _)
RECURSIVE mapPrepositions(_, _)

\* buildWhereClause, lines 51-53: prepositions.map(prep => buildWhereClause(prep, params)),
\* left to right on the one shared params array; the recursive call passes no
\* EntityName, so the default this.entityName applies
mapPrepositions(prepositions, params) ==
    IF prepositions = << >> THEN [clauses |-> << >>, params |-> params]
    ELSE LET first == buildWhereClause(Head(prepositions), params, entityName)
             rest  == mapPrepositions(Tail(prepositions), first.params)
         IN  [clauses |-> <<first.sql>> \o rest.clauses, params |-> rest.params]

\* buildWhereClause(where, params, EntityName = this.entityName), lines 43-63:
\* the SQL fragment returned and the params array as the call leaves it
buildWhereClause(where, params, EntityName) ==
    IF "connectors" \in DOMAIN where
    THEN LET mapped == mapPrepositions(where.prepositions, params)
         IN  [ sql    |-> <<"(">> \o arrayJoin(mapped.clauses, <<" ", where.connectors, " ">>)
                               \o <<")">>,
               params |-> mapped.params ]
    ELSE whereCondition(where, params, EntityName)

(***************************************************************************)
(* Entity (entity.model.ts) and the README's User, the class the DAO under *)
(* study manages.  An object is a function from its own keys to values.    *)
(***************************************************************************)
Obj(o)   == [t |-> "object", v |-> o]
DateV(d) == [t |-> "date", v |-> d]
True     == [t |-> "boolean", v |-> TRUE]

\* Object.keys order: the order in which rows and entities list their keys
KeyOrder == <<"id", "ID", "username", "email", "settings", "createdAt",
              "posts_title", "posts_content", "tags_label", "_joins">>

\* Object.keys(o)
Keys(o) == SelectSeq(KeyOrder, LAMBDA k : k \in DOMAIN o)

\* { ...o, [key]: value }
With(o, key, value) ==
    [k \in DOMAIN o \cup {key} |-> IF k = key THEN value ELSE o[k]]

\* o after delete o[k] for every k of keys
Without(o, keys) == [k \in DOMAIN o \ keys |-> o[k]]

EmptyObject == [k \in {} |-> Undefined]

\* @Type decorators of the README's User: settings is JSON, createdAt is DATE
PropertyTypes == [settings |-> "json", createdAt |-> "date"]

\* getPropertyType(target, propertyKey): the declared kind, or undefined
getPropertyType(propertyKey) ==
    IF propertyKey \in DOMAIN PropertyTypes THEN PropertyTypes[propertyKey]
    ELSE "undefined"

\* the JSON texts and date texts stored rows carry in this model
SettingsText == "{\"theme\":\"dark\"}"
SettingsObject == Obj([theme |-> Str("dark")])
ListText == "[1,2]"
ListValue == Arr(<<Num(1), Num(2)>>)
EpochText == "1970-01-01 00:00:00"
DateText  == "2024-01-02 03:04:05"
\* the instants those texts name, in whole seconds and milliseconds
Epoch      == DateV([s |-> 0, ms |-> 0])
SomeDate   == DateV([s |-> 1704164645, ms |-> 0])
InvalidDate == [t |-> "invalid date", v |-> "NaN"]

\* JSON.parse(text): [ok, value], ok = FALSE when it throws
JSONparse(text) ==
    CASE text = SettingsText -> [ok |-> TRUE, value |-> SettingsObject]
      [] text = ListText     -> [ok |-> TRUE, value |-> ListValue]
      [] text = "{}"         -> [ok |-> TRUE, value |-> Obj(EmptyObject)]
      [] text = "5"          -> [ok |-> TRUE, value |-> Num(5)]
      [] text = "null"       -> [ok |-> TRUE, value |-> Null]
      [] OTHER               -> [ok |-> FALSE, value |-> Undefined]

\* the calendar days this model names, by their number since 1970-01-01
DayNumbers == {-1, 0, 1, 19723, 19724, 19725}
DayName(day) ==
    CASE day = -1    -> "1969-12-31"
      [] day = 0     -> "1970-01-01"
      [] day = 1     -> "1970-01-02"
      [] day = 19723 -> "2024-01-01"
      [] day = 19724 -> "2024-01-02"
      [] day = 19725 -> "2024-01-03"
Digits == <<"0", "1", "2", "3", "4", "5", "6", "7", "8", "9">>
TwoDigits(n) == Digits[(n \div 10) + 1] \o Digits[(n % 10) + 1]

\* the date part and the time part of a count of seconds read as a calendar
\* time: YYYY-MM-DD and HH:MM:SS
CalendarDate(seconds) == DayName(seconds \div 86400)
CalendarTime(seconds) ==
    LET ofDay == seconds % 86400
    IN  TwoDigits(ofDay \div 3600) \o ":"
          \o TwoDigits((ofDay % 3600) \div 60) \o ":"
          \o TwoDigits(ofDay % 60)

\* date.toISOString(): its date part, time part and milliseconds, in UTC
DatePart(date) == CalendarDate(date.v.s)
TimePart(date) == CalendarTime(date.v.s)
Millis(date) ==
    CASE date.v.ms = 0 -> "000" [] date.v.ms = 1 -> "001" [] date.v.ms = 2 -> "002"
      [] date.v.ms = 5 -> "005" [] OTHER -> "007"
toISOString(date) == DatePart(date) \o "T" \o TimePart(date) \o "." \o Millis(date) \o "Z"

\* JSON.stringify(value) of the objects of this model
JSONstringify(value) ==
    CASE value = SettingsObject   -> SettingsText
      [] value = ListValue        -> ListText
      [] value.t = "date"         -> "\"" \o toISOString(value) \o "\""
      [] value.t = "invalid date" -> "null"
      [] OTHER                    -> "{}"

\* text has the form YYYY-MM-DD HH:MM:SS, of a day this model names and with
\* the minutes and seconds its dates have (00:00 and 04:05)
IsDateTimeText(text) ==
    /\ Len(text) = 19
    /\ \E day \in DayNumbers : DayName(day) = SubSeq(text, 1, 10)
    /\ SubSeq(text, 11, 11) = " "
    /\ \E hour \in 0..23 : TwoDigits(hour) = SubSeq(text, 12, 13)
    /\ SubSeq(text, 14, 19) \in {":00:00", ":04:05"}

\* the wall-clock time such a text names, as seconds
WallClock(text) ==
    (CHOOSE day \in DayNumbers : DayName(day) = SubSeq(text, 1, 10)) * 86400
      + (CHOOSE hour \in 0..23 : TwoDigits(hour) = SubSeq(text, 12, 13)) * 3600
      + (IF SubSeq(text, 14, 19) = ":04:05" THEN 245 ELSE 0)

\* new Date(value); a text without a zone names a wall-clock time of the
\* running process, whose zone is timezone hours east of UTC
newDate(value) ==
    CASE value.t = "date"   -> value
      [] value.t = "string" ->
            IF IsDateTimeText(value.v)
            THEN DateV([s |-> WallClock(value.v) - timezone * 3600, ms |-> 0])
            ELSE InvalidDate
      [] value.t = "null"   -> Epoch
      [] value.t = "number" -> DateV([s |-> value.v \div 1000, ms |-> value.v % 1000])
      [] OTHER              -> InvalidDate

\* date.toISOString().slice(0, 19).replace("T", " ")
toISOStringSlice(date) == DatePart(date) \o " " \o TimePart(date)

\* typeof value === "object" && value !== null
IsObject(value) == value.t \in {"object", "array", "date", "invalid date", "buffer"}

\* init taking whatever JSON.parse and new Date return: a parsed number or
\* null replaces the text, and so does an invalid date
initValueTakesAnyResult(prop, value) ==
    LET propertyType == getPropertyType(prop)
    IN  IF propertyType = "json" /\ value.t = "string"
        THEN LET parsed == JSONparse(value.v)
             IN  IF parsed.ok THEN parsed.value ELSE value
        ELSE IF propertyType = "date" /\ value.t = "string"
        THEN newDate(value)
        ELSE value

\* Entity.init, lines 65-99: the value assigned to this[prop]
initValue(prop, value) ==
    LET propertyType == getPropertyType(prop)
    IN  IF propertyType = "json" /\ value.t = "string"
        THEN LET parsed == JSONparse(value.v)
             IN  IF parsed.ok /\ IsObject(parsed.value) THEN parsed.value ELSE value
        ELSE IF propertyType = "date" /\ value.t = "string"
        THEN LET date == newDate(value)
             IN  IF date.t = "date" THEN date ELSE value
        ELSE value

\* Entity.init(attributes), lines 62-102: the fields of the new instance
init(attributes) == [prop \in DOMAIN attributes |-> initValue(prop, attributes[prop])]

\* User.validate of the README: true, or the error message
validate(this) ==
    IF \/ "username" \notin DOMAIN this
       \/ this.username.t \in {"undefined", "null"}
       \/ (this.username.t = "string" /\ Len(this.username.v) < 3)
    THEN Str("Username must be at least 3 characters.")
    ELSE True

\* a slip: the message of the validation hook is dropped
EntityValidationErrorDefaultMessage(msg) ==
    [name |-> "EntityValidationError",
     message |-> Str("The entity's state failed the validation checks")]

\* new EntityValidationError(msg), types.js lines 8-13
EntityValidationError(msg) ==
    [name |-> "EntityValidationError",
     message |-> IF msg.t \in {"null", "undefined"}
                 THEN Str("The entity's state failed the validation checks")
                 ELSE msg]

\* a slip: the result of validate() is not looked at
EntitySkipsValidation(attributes) ==
    [kind |-> "return", value |-> init(attributes)]

\* new EntityClass(attributes), Entity.constructor lines 32-43:
\* the instance, or the error thrown
Entity(attributes) ==
    LET this == init(attributes)
        validationResult == validate(this)
    IN  IF validationResult # True
        THEN [kind |-> "throw", value |-> EntityValidationError(validationResult)]
        ELSE [kind |-> "return", value |-> this]

\* toDBRecord writing a date as toISOString() gives it, without the slice
\* and the replace of lines 177-180
toDBValueWritesISO(key, value) ==
    LET propertyType == getPropertyType(key)
    IN  IF value.t = "undefined" THEN Null
        ELSE IF propertyType = "json"
        THEN (IF IsObject(value) THEN Str(JSONstringify(value)) ELSE value)
        ELSE IF propertyType = "date" \/ value.t \in {"date", "invalid date"}
        THEN LET dateObject == IF value.t \in {"date", "invalid date"}
                               THEN value ELSE newDate(value)
             IN  IF dateObject.t = "date" THEN Str(toISOString(dateObject)) ELSE value
        ELSE IF IsObject(value) /\ value.t # "buffer"
        THEN Str(JSONstringify(value))
        ELSE value

\* toDBRecord, lines 156-196: the value written for one key
toDBValue(key, value) ==
    LET propertyType == getPropertyType(key)
    IN  IF value.t = "undefined" THEN Null
        ELSE IF propertyType = "json"
        THEN (IF IsObject(value) THEN Str(JSONstringify(value)) ELSE value)
        ELSE IF propertyType = "date" \/ value.t \in {"date", "invalid date"}
        THEN LET dateObject == IF value.t \in {"date", "invalid date"}
                               THEN value ELSE newDate(value)
             IN  IF dateObject.t = "date" THEN Str(toISOStringSlice(dateObject)) ELSE value
        ELSE IF IsObject(value) /\ value.t # "buffer"
        THEN Str(JSONstringify(value))
        ELSE value

\* toDBRecord without its last statement, delete record._joins
toDBRecordKeepsJoins(this) ==
    [key \in DOMAIN this |-> toDBValue(key, this[key])]

\* Entity.toDBRecord(), lines 150-202
toDBRecord(this) ==
    Without([key \in DOMAIN this |-> toDBValue(key, this[key])], {"_joins"})

\* toDBRecord working on the instance itself instead of a copy
\* (const record = this): every conversion and the delete land on the instance
toDBRecordOnInstance(this) ==
    [ this |-> toDBRecord(this), record |-> toDBRecord(this) ]

\* a call of toDBRecord as its caller sees it, lines 150-202: the instance
\* after the call and the record returned; line 152 copies the own properties
\* and every later write goes to the copy
toDBRecordCall(this) ==
    [ this |-> this, record |-> toDBRecord(this) ]

\* set as a validating setter: attributes that would leave the instance in a
\* state validate rejects are refused and the instance stays as it was
Entity_setValidates(this, attributes) ==
    LET assigned == [prop \in DOMAIN this \cup DOMAIN attributes |->
                       IF prop \in DOMAIN attributes THEN attributes[prop] ELSE this[prop]]
    IN  IF validate(assigned) = True THEN assigned ELSE this

\* Entity.set(attributes), lines 128-134: every own property of attributes is
\* assigned to the instance
Entity_set(this, attributes) ==
    [prop \in DOMAIN this \cup DOMAIN attributes |->
        IF prop \in DOMAIN attributes THEN attributes[prop] ELSE this[prop]]

\* User.update(attributes) of the README: this.set(attributes)
User_update(this, attributes) == Entity_set(this, attributes)

(***************************************************************************)
(* GenericDAO: the statement builders.  A statement is the SQL text and    *)
(* the params array handed to connection.query.                            *)
(***************************************************************************)
\* o[key] when the optional key is given, else the default
Opt(o, key, default) == IF key \in DOMAIN o THEN o[key] ELSE default

Range(s) == {s[i] : i \in 1..Len(s)}

\* the chunk lists of a list, one after the other
Flatten(lists) == arrayJoin(lists, << >>)

\* selectWhere, lines 290-295: the main table's field list
selectFields(fields) ==
    IF Len(fields) = 0
    THEN [ query  |-> <<"SELECT ", entityName \o ".*">>,
           params |-> << >> ]
    ELSE [ query  |-> <<"SELECT ">>
                        \o arrayJoin([i \in 1..Len(fields) |-> <<"??", ".", "??">>], <<", ">>),
           params |-> Flatten([i \in 1..Len(fields) |->
                                 <<Str(entityName), Str(fields[i])>>]) ]

\* selectWhere, lines 303-312: the aliased field list of one join
joinFields(join) ==
    IF "fields" \in DOMAIN join
    THEN arrayJoin([i \in 1..Len(join.fields) |->
                      << join.rightTable \o "." \o join.fields[i] \o " AS "
                           \o join.rightTable \o "_" \o join.fields[i] >>], <<", ">>)
    ELSE << >>

\* selectWhere, lines 298-318: the field lists of all joins
RECURSIVE selectJoinFields(_)
selectJoinFields(joins) ==
    IF joins = << >> THEN << >>
    ELSE LET fields == joinFields(Head(joins))
         IN  (IF fields # << >> THEN <<", ">> \o fields ELSE << >>)
               \o selectJoinFields(Tail(joins))

\* selectWhere, lines 325-339: the JOIN ... ON ... clauses
RECURSIVE joinStatements(_)
joinStatements(joins) ==
    IF joins = << >> THEN [query |-> << >>, params |-> << >>]
    ELSE LET join == Head(joins)
             rest == joinStatements(Tail(joins))
         IN  [ query  |-> <<" ", Opt(join, "type", "LEFT"), " JOIN ", "??", " ON ", "??",
                            " = ", "??">> \o rest.query,
               params |-> << Str(join.rightTable),
                             Str(Opt(join, "leftTable", entityName) \o "." \o join.on.left),
                             Str(join.rightTable \o "." \o join.on.right) >>
                            \o rest.params ]

\* selectWhere, lines 346-360: the joins' own conditions, each after " AND ";
\* params is the array as the clauses before have left it
RECURSIVE joinWheres(_, _)
joinWheres(joins, params) ==
    IF joins = << >> THEN [query |-> << >>, params |-> params]
    ELSE LET join == Head(joins)
         IN  IF "where" \in DOMAIN join
             THEN LET clause == buildWhereClause(join.where, params,
                                    Opt(join.where, "targetTable", join.rightTable))
                      rest   == joinWheres(Tail(joins), clause.params)
                  IN  [query |-> <<" AND ">> \o clause.sql \o rest.query,
                       params |-> rest.params]
             ELSE joinWheres(Tail(joins), params)

\* selectWhere, lines 362-372: the main ORDER BY items
orderByClause(options) ==
    IF "orderBy" \in DOMAIN options /\ Len(options.orderBy) > 0
    THEN [ query  |-> <<" ORDER BY">>
                        \o Flatten([i \in 1..Len(options.orderBy) |->
                              (IF i > 1 THEN <<", ">> ELSE << >>)
                                \o <<" ", "??", ".", "??", " ", options.orderBy[i].direction>>]),
           params |-> Flatten([i \in 1..Len(options.orderBy) |->
                                 <<Str(entityName), Str(options.orderBy[i].field)>>]),
           countOrderBy |-> Len(options.orderBy) ]
    ELSE [query |-> << >>, params |-> << >>, countOrderBy |-> 0]

\* selectWhere, lines 383-386: the table parameter of a join's ordering item;
\* join.leftTable is the entity class itself (or undefined), not its name
joinOrderTable(join, order) ==
    IF "table" \in DOMAIN order THEN Str(order.table)
    ELSE IF "leftTable" \in DOMAIN join THEN [t |-> "class", v |-> join.leftTable]
    ELSE Undefined

\* selectWhere, lines 375-391: the joins' ORDER BY items; includesOrderBy is
\* query.includes("ORDER BY") and countOrderBy the items written so far
RECURSIVE joinOrderBys(_, _, _)
joinOrderBys(joins, includesOrderBy, countOrderBy) ==
    IF joins = << >> THEN [query |-> << >>, params |-> << >>]
    ELSE LET join == Head(joins)
         IN  IF "orderBy" \in DOMAIN join
             THEN LET rest == joinOrderBys(Tail(joins), TRUE,
                                           countOrderBy + Len(join.orderBy))
                  IN  [ query  |-> (IF ~includesOrderBy THEN <<" ORDER BY">> ELSE << >>)
                                     \o (IF countOrderBy > 0 THEN <<", ">> ELSE << >>)
                                     \o Flatten([i \in 1..Len(join.orderBy) |->
                                          <<"??", ".", "??", " ", join.orderBy[i].direction>>])
                                     \o rest.query,
                        params |-> Flatten([i \in 1..Len(join.orderBy) |->
                                      << joinOrderTable(join, join.orderBy[i]),
                                         Str(join.orderBy[i].field) >>])
                                     \o rest.params ]
             ELSE joinOrderBys(Tail(joins), includesOrderBy, countOrderBy)

\* selectWhere and selectAll, lines 393-402 and 227-236: LIMIT and OFFSET
limitClause(options) ==
    IF "limit" \in DOMAIN options
    THEN IF "offset" \in DOMAIN options
         THEN [query |-> <<" LIMIT ", "?", " OFFSET ", "?">>,
               params |-> <<options.limit, options.offset>>]
         ELSE [query |-> <<" LIMIT ", "?">>, params |-> <<options.limit>>]
    ELSE [query |-> << >>, params |-> << >>]

\* selectWhere, lines 341-344: the main condition, when there is one
mainWhere(where, params) ==
    IF where # Null
    THEN LET clause == buildWhereClause(where, params, entityName)
         IN  [query |-> <<" WHERE ">> \o clause.sql, params |-> clause.params]
    ELSE [query |-> << >>, params |-> params]

\* selectWhere, lines 284-404: the statement it dispatches
selectWhereStatement(where, options) ==
    LET fields   == Opt(options, "fields", << >>)
        joins    == Opt(options, "joins", << >>)
        select   == selectFields(fields)
        joined   == joinStatements(joins)
        main     == mainWhere(where, select.params \o <<Str(entityName)>> \o joined.params)
        jwheres  == joinWheres(joins, main.params)
        orderBy  == orderByClause(options)
        jorders  == joinOrderBys(joins, orderBy.countOrderBy > 0, orderBy.countOrderBy)
        limit    == limitClause(options)
    IN  [ sql    |-> select.query \o selectJoinFields(joins) \o <<" FROM ", "??">>
                       \o joined.query \o main.query \o jwheres.query
                       \o orderBy.query \o jorders.query \o limit.query,
          params |-> jwheres.params \o orderBy.params \o jorders.params \o limit.params ]

\* an entity as a value handed back to the caller
EntityValue(fields) == [t |-> "entity", v |-> fields]

\* errors raised by the DAO itself
InsertFailed     == [name |-> "Error", message |-> Str("Insert failed - no insertId returned")]
UnexpectedFormat == [name |-> "Error", message |-> Str("Unexpected query result format")]

Throw(error)  == [kind |-> "throw", value |-> error]
Return(value) == [kind |-> "return", value |-> value]

\* rows.map(row => new EntityClass(row)): the entities, or the first error thrown
RECURSIVE ConstructorFactory(_)
ConstructorFactory(rows) ==
    IF rows = << >> THEN Return(<< >>)
    ELSE LET first == Entity(Head(rows))
         IN  IF first.kind = "throw" THEN first
             ELSE LET rest == ConstructorFactory(Tail(rows))
                  IN  IF rest.kind = "throw" THEN rest
                      ELSE Return(<<EntityValue(first.value)>> \o rest.value)

\* selectWhere, lines 420-426: the main entity's fields of a row
extractMain(row, fields) ==
    [field \in (IF Len(fields) # 0 THEN Range(fields) ELSE DOMAIN row) \cap DOMAIN row
       |-> row[field]]

\* the fields of a join whose alias key the row holds
presentFields(join, row) ==
    IF "fields" \in DOMAIN join
    THEN {field \in Range(join.fields) : (join.rightTable \o "_" \o field) \in DOMAIN row}
    ELSE {}

\* a slip: the alias keys are copied into joinedData but not deleted from entityData
RECURSIVE extractJoinedKeepsAlias(_, _, _, _)
extractJoinedKeepsAlias(joins, row, entityData, joinedData) ==
    IF joins = << >> THEN [entityData |-> entityData, joinedData |-> joinedData]
    ELSE LET join == Head(joins)
             present == presentFields(join, row)
         IN  extractJoinedKeepsAlias(Tail(joins), row, entityData,
                 With(joinedData, join.rightTable,
                      Obj([field \in present |-> row[join.rightTable \o "_" \o field]])))

\* selectWhere, lines 428-443: joinedData[rightTable] starts as {} for every
\* join; each alias key found in the row is copied there and deleted from entityData
RECURSIVE extractJoined(_, _, _, _)
extractJoined(joins, row, entityData, joinedData) ==
    IF joins = << >> THEN [entityData |-> entityData, joinedData |-> joinedData]
    ELSE LET join == Head(joins)
             present == presentFields(join, row)
         IN  extractJoined(Tail(joins), row,
                 Without(entityData, {join.rightTable \o "_" \o field : field \in present}),
                 With(joinedData, join.rightTable,
                      Obj([field \in present |-> row[join.rightTable \o "_" \o field]])))

\* selectWhere, lines 416-448: the attributes the entity of a row is built from
rowAttributes(row, fields, joins) ==
    LET split == extractJoined(joins, row, extractMain(row, fields), EmptyObject)
    IN  With(split.entityData, "_joins", Obj(split.joinedData))

\* selectWhere, lines 404-451: what the call makes of the execution layer's answer
selectWhereOutcome(options, response) ==
    IF response.kind = "error" THEN Throw(response.error)
    ELSE IF response.kind # "rows" THEN Throw(UnexpectedFormat)
    ELSE LET raw == ConstructorFactory(response.rows)
         IN  IF raw.kind = "throw" THEN raw
             ELSE LET entities == ConstructorFactory(
                          [i \in 1..Len(response.rows) |->
                              rowAttributes(response.rows[i], Opt(options, "fields", << >>),
                                            Opt(options, "joins", << >>))])
                  IN  IF entities.kind = "throw" THEN entities
                      ELSE Return(Arr(entities.value))

\* selectWhere(where, options), lines 284-452
selectWhere(where, options, response) ==
    [ dispatched |-> << selectWhereStatement(where, options) >>,
      ret        |-> selectWhereOutcome(options, response) ]

\* selectWhereID, line 205: results[0] ?? null, of a selectWhere that returned
firstOrNull(results) ==
    [ dispatched |-> results.dispatched,
      ret |-> IF results.ret.kind = "throw" THEN results.ret
              ELSE IF Len(results.ret.value.v) > 0 THEN Return(results.ret.value.v[1])
              ELSE Return(Null) ]

\* selectWhereID(id, options), lines 193-206
selectWhereID(id, options, response) ==
    firstOrNull(selectWhere([field |-> "id", value |-> id], options, response))

\* selectAllPaginated read with the page numbering its documentation comment
\* gives (0-based): the row offset is page * offset
selectAllPaginatedZeroBased(page, offset, options, response) ==
    selectWhere([field |-> "id", value |-> Num(0), operator |-> ">"],
                [k \in {"limit", "offset"} \cup (DOMAIN options \cap {"joins", "orderBy"}) |->
                    CASE k = "limit"  -> Num(offset)
                      [] k = "offset" -> Num(page * offset)
                      [] OTHER        -> options[k]],
                response)

\* selectAllPaginated(page, offset, options), lines 257-277
selectAllPaginated(page, offset, options, response) ==
    selectWhere([field |-> "id", value |-> Num(0), operator |-> ">"],
                [k \in {"limit", "offset"} \cup (DOMAIN options \cap {"joins", "orderBy"}) |->
                    CASE k = "limit"  -> Num(offset)
                      [] k = "offset" -> Num((page - 1) * offset)
                      [] OTHER        -> options[k]],
                response)

\* selectAll(options), lines 212-249
selectAll(options, response) ==
    LET orderBy == IF "orderBy" \in DOMAIN options /\ Len(options.orderBy) > 0
                   THEN [ query  |-> <<" ORDER BY">>
                                       \o Flatten([i \in 1..Len(options.orderBy) |->
                                            <<" ", "??", ".", "??", " ",
                                              options.orderBy[i].direction>>]),
                          params |-> Flatten([i \in 1..Len(options.orderBy) |->
                                       <<Str(entityName), Str(options.orderBy[i].field)>>]) ]
                   ELSE [query |-> << >>, params |-> << >>]
        limit   == limitClause(options)
    IN  [ dispatched |-> << [ sql    |-> <<"SELECT * FROM ", "??">> \o orderBy.query
                                           \o limit.query,
                              params |-> <<Str(entityName)>> \o orderBy.params
                                           \o limit.params ] >>,
          ret |-> IF response.kind = "error" THEN Throw(response.error)
                  ELSE IF response.kind # "rows" THEN Throw(UnexpectedFormat)
                  ELSE LET entities == ConstructorFactory(response.rows)
                       IN  IF entities.kind = "throw" THEN entities
                           ELSE Return(Arr(entities.value)) ]

\* value is truthy
Truthy(value) ==
    ~ \/ value.t \in {"undefined", "null"}
      \/ value = Num(0)
      \/ value = Str("")

\* "ID" in undefined
InOperatorTypeError ==
    [name |-> "TypeError",
     message |-> Str("Cannot use 'in' operator to search for 'ID' in undefined")]

\* selectRandom(), lines 454-465: query() hands back the rows, and [result]
\* takes the first of them, undefined when there is none
selectRandom(response) ==
    [ dispatched |-> << [ sql    |-> <<"SELECT * FROM ", "??", " ORDER BY RAND() LIMIT 1">>,
                          params |-> <<Str(entityName)>> ] >>,
      ret |-> IF response.kind = "error" THEN Throw(response.error)
              ELSE IF Len(response.rows) = 0 THEN Throw(InOperatorTypeError)
              ELSE IF "ID" \in DOMAIN response.rows[1] /\ Truthy(response.rows[1].ID)
              THEN LET entity == Entity(response.rows[1])
                   IN  IF entity.kind = "throw" THEN entity
                       ELSE Return(EntityValue(entity.value))
              ELSE Return(Null) ]

\* countWhere(where), lines 484-495
countWhere(where, response) ==
    LET clause == mainWhere(where, <<Str(entityName)>>)
    IN  [ dispatched |-> << [ sql    |-> <<"SELECT COUNT(*) AS count FROM ", "??">>
                                           \o clause.query,
                              params |-> clause.params ] >>,
          ret |-> IF response.kind = "error" THEN Throw(response.error)
                  ELSE Return(response.rows[1].count) ]

\* array[name] for a name that is no index: only length is there
arrayProperty(array, name) ==
    IF name = "length" THEN Num(Len(array)) ELSE Undefined

\* count(), lines 470-476: result is the driver's pair [rows, fields], so
\* result[0] is the rows array and .count is read from the array itself
count(response) ==
    [ dispatched |-> << [ sql    |-> <<"SELECT COUNT(*) AS count FROM ", "??">>,
                          params |-> <<Str(entityName)>> ] >>,
      ret |-> IF response.kind = "error" THEN Throw(response.error)
              ELSE Return(arrayProperty(response.rows, "count")) ]

\* insert without its dedicated error: a result that carries no identifier
\* is answered with the absent value
insertReturnsAbsentId(entity, response) ==
    [ dispatched |-> << [ sql    |-> <<"INSERT INTO ", "??", " SET ", "?">>,
                          params |-> <<Str(entityName), Obj(toDBRecord(entity))>> ] >>,
      ret |-> IF response.kind = "error" THEN Throw(response.error)
              ELSE IF response.kind = "result" /\ "insertId" \in DOMAIN response.result
              THEN Return(response.result.insertId)
              ELSE Return(Undefined) ]

\* insert(entity), lines 73-91
insert(entity, response) ==
    [ dispatched |-> << [ sql    |-> <<"INSERT INTO ", "??", " SET ", "?">>,
                          params |-> <<Str(entityName), Obj(toDBRecord(entity))>> ] >>,
      ret |-> IF response.kind = "error" THEN Throw(response.error)
              ELSE IF response.kind = "result" /\ "insertId" \in DOMAIN response.result
              THEN Return(response.result.insertId)
              ELSE Throw(InsertFailed) ]

\* insertAll and upsertAll, lines 115 and 155-165: a name between the
\* source's grave accents, written here with apostrophes
quoted(name) == "'" \o name \o "'"

\* insertAll and upsertAll, lines 105-107 and 144-146: one value per entity and
\* column, undefined where the record lacks the column; then values.flat()
flatValues(records, columns) ==
    Flatten([i \in 1..Len(records) |->
               [j \in 1..Len(columns) |-> Opt(records[i], columns[j], Undefined)]])

\* insertAll and upsertAll, lines 110-112 and 150-152: (?, ?), (?, ?)
valuePlaceholders(records, columns) ==
    arrayJoin([i \in 1..Len(records) |->
                 <<"(">> \o arrayJoin([j \in 1..Len(columns) |-> <<"?">>], <<", ">>)
                         \o <<")">>], <<", ">>)

\* columns.join(", ")
columnNames(columns) == arrayJoin([j \in 1..Len(columns) |-> <<columns[j]>>], <<", ">>)

\* insertAll as a loop of single-row statements, one round trip per entity
insertAllRowByRow(entities, response) ==
    IF Len(entities) = 0 THEN [dispatched |-> << >>, ret |-> Return(Arr(<< >>))]
    ELSE LET records == [i \in 1..Len(entities) |-> toDBRecord(entities[i])]
             columns == Keys(records[1])
         IN  [ dispatched |-> [i \in 1..Len(entities) |->
                                 [ sql |-> <<"INSERT IGNORE INTO " \o quoted(entityName) \o " (">>
                                             \o columnNames(columns) \o <<") VALUES ">>
                                             \o valuePlaceholders(<<records[i]>>, columns),
                                   params |-> flatValues(<<records[i]>>, columns) ]],
               ret |-> IF response.kind = "error" THEN Throw(response.error)
                       ELSE IF /\ response.kind = "result"
                               /\ "insertId" \in DOMAIN response.result
                               /\ response.result.insertId # Num(0)
                       THEN Return(Arr(<<response.result.insertId>>))
                       ELSE Return(Arr(<< >>)) ]

\* insertAll(entities), lines 98-125
insertAll(entities, response) ==
    IF Len(entities) = 0 THEN [dispatched |-> << >>, ret |-> Return(Arr(<< >>))]
    ELSE LET records == [i \in 1..Len(entities) |-> toDBRecord(entities[i])]
             columns == Keys(records[1])
         IN  [ dispatched |-> << [ sql |-> <<"INSERT IGNORE INTO " \o quoted(entityName) \o " (">>
                                             \o columnNames(columns) \o <<") VALUES ">>
                                             \o valuePlaceholders(records, columns),
                                   params |-> flatValues(records, columns) ] >>,
               ret |-> IF response.kind = "error" THEN Throw(response.error)
                       ELSE IF /\ response.kind = "result"
                               /\ "insertId" \in DOMAIN response.result
                               /\ response.result.insertId # Num(0)
                       THEN Return(Arr(<<response.result.insertId>>))
                       ELSE Return(Arr(<< >>)) ]

\* upsertAll(entities), lines 135-183
upsertAll(entities, response) ==
    IF Len(entities) = 0 THEN [dispatched |-> << >>, ret |-> Return(Arr(<< >>))]
    ELSE LET dbRecords == [i \in 1..Len(entities) |-> toDBRecord(entities[i])]
             columns   == Keys(dbRecords[1])
             updateClauses ==
                 arrayJoin([j \in 1..Len(columns) |->
                              <<quoted(columns[j]) \o " = VALUES(" \o quoted(columns[j]) \o ")">>],
                           <<", ">>)
         IN  [ dispatched |-> << [ sql |-> <<"INSERT INTO " \o quoted(entityName) \o " (">>
                                             \o columnNames(columns) \o <<") VALUES ">>
                                             \o valuePlaceholders(dbRecords, columns)
                                             \o <<" ON DUPLICATE KEY UPDATE ">>
                                             \o updateClauses,
                                   params |-> flatValues(dbRecords, columns) ] >>,
               ret |-> IF response.kind = "error" THEN Throw(response.error)
                       ELSE Return(Arr(<< >>)) ]

\* update(entity), lines 504-512
update(entity, response) ==
    [ dispatched |-> << [ sql    |-> <<"UPDATE ", "??", " SET ", "?", " WHERE id = ", "?">>,
                          params |-> << Str(entityName), Obj(toDBRecord(entity)),
                                        Opt(entity, "id", Undefined) >> ] >>,
      ret |-> IF response.kind = "error" THEN Throw(response.error)
              ELSE LET copy == Entity(entity)
                   IN  IF copy.kind = "throw" THEN copy
                       ELSE Return(EntityValue(copy.value)) ]

\* a slip: the field of an increment is pushed once though the clause names it twice
setConditionPushesFieldOnce(condition) ==
    LET op_ == Opt(condition, "operator", "=")
    IN  IF op_ = "+=" THEN [ sql    |-> <<"??", " = ", "??", " + ", "?">>,
                             params |-> <<Str(condition.field), condition.value>> ]
        ELSE IF op_ = "-=" THEN [ sql    |-> <<"??", " = ", "??", " - ", "?">>,
                                  params |-> <<Str(condition.field), condition.value>> ]
        ELSE [ sql |-> <<"??", " = ", "?">>, params |-> <<Str(condition.field), condition.value>> ]

\* buildSetClause, lines 527-540: one assignment
setCondition(condition) ==
    LET op_ == Opt(condition, "operator", "=")
    IN  IF op_ = "+=" THEN [ sql    |-> <<"??", " = ", "??", " + ", "?">>,
                             params |-> <<Str(condition.field), Str(condition.field), condition.value>> ]
        ELSE IF op_ = "-=" THEN [ sql    |-> <<"??", " = ", "??", " - ", "?">>,
                                  params |-> <<Str(condition.field), Str(condition.field), condition.value>> ]
        ELSE [ sql |-> <<"??", " = ", "?">>, params |-> <<Str(condition.field), condition.value>> ]

\* buildSetClause(set, params), lines 524-543; an array of assignments is Arr(...)
buildSetClause(set, params) ==
    LET conditions == IF "field" \in DOMAIN set THEN <<set>> ELSE set.v
        clauses    == [i \in 1..Len(conditions) |-> setCondition(conditions[i])]
    IN  [ sql    |-> arrayJoin([i \in 1..Len(clauses) |-> clauses[i].sql], <<", ">>),
          params |-> params \o Flatten([i \in 1..Len(clauses) |-> clauses[i].params]) ]

\* updateWhere compiling the filter before the assignments: the condition's
\* parameters follow the table name and the assignments' come last
updateWhereFilterFirst(where, set, response) ==
    LET clause      == mainWhere(where, <<Str(entityName)>>)
        assignments == buildSetClause(set, clause.params)
    IN  [ dispatched |-> << [ sql    |-> <<"UPDATE ", "??", " SET">> \o assignments.sql
                                           \o clause.query,
                              params |-> assignments.params ] >>,
          ret |-> IF response.kind = "error" THEN Throw(response.error)
                  ELSE Return(response.result.affectedRows) ]

\* updateWhere(where, set), lines 551-563
updateWhere(where, set, response) ==
    LET assignments == buildSetClause(set, <<Str(entityName)>>)
        clause      == mainWhere(where, assignments.params)
    IN  [ dispatched |-> << [ sql    |-> <<"UPDATE ", "??", " SET">> \o assignments.sql
                                           \o clause.query,
                              params |-> clause.params ] >>,
          ret |-> IF response.kind = "error" THEN Throw(response.error)
                  ELSE Return(response.result.affectedRows) ]

\* deleteWhere, lines 597-609, after selectWhere has answered with rows: rows is
\* an array whenever selectWhere returns, and an array is truthy even when empty
deleteSelected(where, rows, deleted) ==
    IF rows.ret.kind = "throw" THEN rows
    ELSE IF where # Null
    THEN LET clause == buildWhereClause(where, <<Str(entityName)>>, entityName)
         IN  [ dispatched |-> rows.dispatched
                   \o << [ sql    |-> <<"DELETE FROM ", "??", " WHERE ">> \o clause.sql,
                           params |-> clause.params ] >>,
               ret |-> IF deleted.kind = "error" THEN Throw(deleted.error)
                       ELSE rows.ret ]
    ELSE [dispatched |-> rows.dispatched, ret |-> Return(Null)]

\* deleteWhere(where), lines 595-610
deleteWhere(where, selected, deleted) ==
    deleteSelected(where, selectWhere(where, EmptyObject, selected), deleted)

\* deleteWhereID, line 577: result ? result[0] : null, and result[0] of an
\* empty array is undefined
firstDeleted(result) ==
    [ dispatched |-> result.dispatched,
      ret |-> IF result.ret.kind = "throw" THEN result.ret
              ELSE IF result.ret.value = Null THEN Return(Null)
              ELSE IF Len(result.ret.value.v) > 0 THEN Return(result.ret.value.v[1])
              ELSE Return(Undefined) ]

\* deleteWhereID(id), lines 572-578
deleteWhereID(id, selected, deleted) ==
    firstDeleted(deleteWhere([field |-> "ID", value |-> id], selected, deleted))

\* delete(entity), lines 585-588
delete(entity, selected, deleted) ==
    IF Truthy(Opt(entity, "id", Undefined))
    THEN deleteWhereID(entity.id, selected, deleted)
    ELSE [dispatched |-> << >>, ret |-> Return(Null)]

(***************************************************************************)
(* TransactionManager.runInTransaction                                     *)
(***************************************************************************)
\* bound: how many statements the callback runs on the connection at most
MaxWorkOps == 2

\* values a callback may resolve with
WorkValues == {"undefined", "v1", "v2"}

\* errors each collaborator may reject with
AcquireErrors  == {"EAcquire"}
BeginErrors    == {"EBegin"}
WorkErrors     == {"EWork", "EntityValidationError"}
QueryErrors    == {"EQuery"}
CommitErrors   == {"ECommit"}
RollbackErrors == {"ERollback"}

NoOutcome == [kind |-> "pending", value |-> "none"]

TxInit ==
    /\ txPc = "getConnection"
    /\ connection = "null"
    /\ txLog = << >>
    /\ txResult = "none"
    /\ txError = "none"
    /\ txFailed = "none"
    /\ txRollback = "none"
    /\ txOutcome = NoOutcome
    /\ txQueries = 0

\* line 17: connection = await pool.getConnection()
GetConnection ==
    /\ txPc = "getConnection"
    /\ \/ /\ connection' = "conn"
          /\ txLog' = Append(txLog, "getConnection")
          /\ txPc' = "beginTransaction"
          /\ UNCHANGED <<txError, txFailed>>
       \/ \E e \in AcquireErrors :
            /\ txError' = e
            /\ txFailed' = "getConnection"
            /\ txPc' = "catch"
            /\ UNCHANGED <<connection, txLog>>
    /\ UNCHANGED <<txResult, txOutcome, txQueries, txRollback, whereVars, daoVars, storeVars, entVars>>

\* line 19: await connection.beginTransaction()
BeginTransaction ==
    /\ txPc = "beginTransaction"
    /\ txLog' = Append(txLog, "beginTransaction")
    /\ \/ /\ txPc' = "callback"
          /\ UNCHANGED <<txError, txFailed>>
       \/ \E e \in BeginErrors :
            /\ txError' = e
            /\ txFailed' = "beginTransaction"
            /\ txPc' = "catch"
    /\ UNCHANGED <<connection, txResult, txOutcome, txQueries, txRollback, whereVars, daoVars, storeVars, entVars>>

\* line 21: callback(connection) is entered
CallbackEnter ==
    /\ txPc = "callback"
    /\ txLog' = Append(txLog, "callback")
    /\ txPc' = "inCallback"
    /\ UNCHANGED <<connection, txResult, txError, txFailed, txOutcome, txQueries, txRollback, whereVars, daoVars, storeVars, entVars>>

\* line 21: the callback runs one statement on the transactional connection;
\* a failing statement rejects the callback
CallbackQuery ==
    /\ txPc = "inCallback"
    /\ txQueries < MaxWorkOps
    /\ txQueries' = txQueries + 1
    /\ txLog' = Append(txLog, "query")
    /\ \/ /\ txPc' = "inCallback"
          /\ UNCHANGED <<txError, txFailed>>
       \/ \E e \in QueryErrors :
            /\ txError' = e
            /\ txFailed' = "callback"
            /\ txPc' = "catch"
    /\ UNCHANGED <<connection, txResult, txOutcome, txRollback, whereVars, daoVars, storeVars, entVars>>

\* line 21: const result = await callback(connection), resolved
CallbackReturn ==
    /\ txPc = "inCallback"
    /\ \E v \in WorkValues : txResult' = v
    /\ txPc' = "commit"
    /\ UNCHANGED <<connection, txLog, txError, txFailed, txOutcome, txQueries, txRollback, whereVars, daoVars, storeVars, entVars>>

\* line 21: await callback(connection), rejected by the callback's own logic
CallbackThrow ==
    /\ txPc = "inCallback"
    /\ \E e \in WorkErrors : txError' = e
    /\ txFailed' = "callback"
    /\ txPc' = "catch"
    /\ UNCHANGED <<connection, txLog, txResult, txOutcome, txQueries, txRollback, whereVars, daoVars, storeVars, entVars>>

\* a slip: `return await connection.commit()`, which resolves with commit's own
\* result instead of the callback's
CommitReturnsCommitResult ==
    /\ txPc = "commit"
    /\ txLog' = Append(txLog, "commit")
    /\ \/ /\ txOutcome' = [kind |-> "return", value |-> "undefined"]
          /\ txPc' = "finally"
          /\ UNCHANGED <<txError, txFailed>>
       \/ \E e \in CommitErrors :
            /\ txError' = e
            /\ txFailed' = "commit"
            /\ txPc' = "catch"
            /\ UNCHANGED txOutcome
    /\ UNCHANGED <<connection, txResult, txQueries, txRollback, whereVars, daoVars, storeVars, entVars>>

\* lines 23-24: await connection.commit(); return result
Commit ==
    /\ txPc = "commit"
    /\ txLog' = Append(txLog, "commit")
    /\ \/ /\ txOutcome' = [kind |-> "return", value |-> txResult]
          /\ txPc' = "finally"
          /\ UNCHANGED <<txError, txFailed>>
       \/ \E e \in CommitErrors :
            /\ txError' = e
            /\ txFailed' = "commit"
            /\ txPc' = "catch"
            /\ UNCHANGED txOutcome
    /\ UNCHANGED <<connection, txResult, txQueries, txRollback, whereVars, daoVars, storeVars, entVars>>

\* a slip: the rollback is guarded by its own try/catch, so its failure is
\* absorbed and the first error is thrown whatever the rollback did
CatchAbsorbsRollbackFailure ==
    /\ txPc = "catch"
    /\ \/ /\ connection = "null"
          /\ UNCHANGED <<txLog, txRollback>>
       \/ /\ connection # "null"
          /\ txLog' = Append(txLog, "rollback")
          /\ txRollback' \in {"ok"} \cup RollbackErrors
    /\ txOutcome' = [kind |-> "throw", value |-> txError]
    /\ txPc' = "finally"
    /\ UNCHANGED <<connection, txResult, txError, txFailed, txQueries, whereVars, daoVars, storeVars, entVars>>

\* the catch block without its test of connection: rollback is attempted
\* whether or not the pool handed out a connection
CatchRollsBackWithoutConnection ==
    /\ txPc = "catch"
    /\ txLog' = Append(txLog, "rollback")
    /\ \/ /\ txRollback' = "ok"
          /\ txOutcome' = [kind |-> "throw", value |-> txError]
       \/ \E r \in RollbackErrors :
            /\ txRollback' = r
            /\ txOutcome' = [kind |-> "throw", value |-> r]
    /\ txPc' = "finally"
    /\ UNCHANGED <<connection, txResult, txError, txFailed, txQueries, whereVars, daoVars, storeVars, entVars>>

\* lines 26-33: catch (error) { if (connection) await connection.rollback(); throw error }
\* a rejected rollback leaves the catch block with the rollback's error
Catch ==
    /\ txPc = "catch"
    /\ \/ /\ connection = "null"
          /\ txOutcome' = [kind |-> "throw", value |-> txError]
          /\ UNCHANGED <<txLog, txRollback>>
       \/ /\ connection # "null"
          /\ txLog' = Append(txLog, "rollback")
          /\ \/ /\ txRollback' = "ok"
                /\ txOutcome' = [kind |-> "throw", value |-> txError]
             \/ \E r \in RollbackErrors :
                  /\ txRollback' = r
                  /\ txOutcome' = [kind |-> "throw", value |-> r]
    /\ txPc' = "finally"
    /\ UNCHANGED <<connection, txResult, txError, txFailed, txQueries, whereVars, daoVars, storeVars, entVars>>

\* a slip: release() written at the end of the try and of the catch block
\* instead of in finally, so a rejected rollback skips it
FinallyAfterRollbackOnly ==
    /\ txPc = "finally"
    /\ txLog' = IF connection # "null" /\ txRollback \notin RollbackErrors
                 THEN Append(txLog, "release") ELSE txLog
    /\ txPc' = "done"
    /\ UNCHANGED <<connection, txResult, txError, txFailed, txOutcome, txQueries,
                   txRollback, whereVars, daoVars, storeVars, entVars>>

\* lines 34-39: finally { if (connection) connection.release() }
Finally ==
    /\ txPc = "finally"
    /\ txLog' = IF connection # "null" THEN Append(txLog, "release") ELSE txLog
    /\ txPc' = "done"
    /\ UNCHANGED <<connection, txResult, txError, txFailed, txOutcome, txQueries, txRollback, whereVars, daoVars, storeVars, entVars>>

\* the caller calls runInTransaction again: every local starts afresh (line 14)
TxCallAgain ==
    /\ txPc = "done"
    /\ txPc' = "getConnection"
    /\ connection' = "null"
    /\ txLog' = << >>
    /\ txResult' = "none"
    /\ txError' = "none"
    /\ txFailed' = "none"
    /\ txRollback' = "none"
    /\ txOutcome' = NoOutcome
    /\ txQueries' = 0
    /\ UNCHANGED <<whereVars, daoVars, storeVars, entVars>>

NoCall   == [name |-> "none"]
NoReturn == [kind |-> "none", value |-> Undefined]

DaoIdle ==
    /\ op = NoCall
    /\ dispatched = << >>
    /\ ret = NoReturn

\* no deleteWhere is under way on the table
StoreIdle ==
    /\ tableRows = << >>
    /\ delPc = "idle"
    /\ delRows = {}
    /\ removed = {}
    /\ others = 0

\* toDBRecord has not been called yet
NotSerialized == [calls |-> 0, record |-> EmptyObject]

\* no instance has been built from the record
NotHydrated == [done |-> FALSE, fields |-> EmptyObject]

\* no instance is followed; the process runs in UTC
EntIdle ==
    /\ timezone = 0
    /\ ent = EmptyObject
    /\ rec = NotSerialized
    /\ updates = 0
    /\ hydrated = NotHydrated

TxNext ==
    \/ GetConnection
    \/ BeginTransaction
    \/ CallbackEnter
    \/ CallbackQuery
    \/ CallbackReturn
    \/ CallbackThrow
    \/ Commit
    \/ Catch
    \/ Finally
    \/ TxCallAgain

\* buildWhereClause has not been called yet
NotBuilt == [pending |-> TRUE]

WhereIdle ==
    /\ cond = "none"
    /\ condTable = "none"
    /\ built = NotBuilt

InitTx == TxInit /\ WhereIdle /\ DaoIdle /\ StoreIdle /\ EntIdle

SpecTx == InitTx /\ [][TxNext]_vars

(***************************************************************************)
(* buildWhereClause applied to every condition tree within the bound       *)
(***************************************************************************)
InitWhere ==
    /\ cond \in WhereTrees
    /\ condTable \in Tables
    /\ built = NotBuilt
    /\ TxInit
    /\ DaoIdle
    /\ StoreIdle
    /\ EntIdle

\* a caller (selectWhere, countWhere, updateWhere, deleteWhere) compiles the
\* condition into a fresh part of its params array
BuildWhere ==
    /\ built = NotBuilt
    /\ built' = buildWhereClause(cond, << >>, condTable)
    /\ UNCHANGED <<cond, condTable, txVars, daoVars, storeVars, entVars>>

WhereNext == BuildWhere

SpecWhere == InitWhere /\ [][WhereNext]_vars

(***************************************************************************)
(* The DAO's operations called one at a time on the inputs below; the      *)
(* execution layer answers each dispatched statement as it likes.          *)
(***************************************************************************)
\* bounds: joins of one select, rows of one answer, entities of one bulk call
MaxJoins == 2
MaxRows == 2
MaxEntities == 2

\* the sequences over a set up to a length
SeqsUpTo(set, n) == UNION { [1..k -> set] : k \in 0..n }

\* conditions the callers pass: none, a comparison, a composite holding a composite
DaoWheres ==
    { Null,
      [field |-> "id", operator |-> ">", value |-> Num(0)],
      [connectors |-> "OR", prepositions |->
         << [field |-> "username", operator |-> "LIKE", value |-> Str("a%")],
            [connectors |-> "AND", prepositions |->
               << [field |-> "id", operator |-> "IN", value |-> Arr(<<Num(1), Num(2)>>)],
                  [field |-> "email", operator |-> "IS", value |-> Null] >>] >>] }

\* joins to Post: the README's (fields and a comparison of its own), one with
\* type, leftTable and an ordering without table, one with a composite condition
PostJoins ==
    { [rightTable |-> "posts", type |-> "LEFT", on |-> [left |-> "id", right |-> "userId"],
       fields |-> <<"title", "content">>,
       where |-> [field |-> "isActive", value |-> Num(1), operator |-> "="]],
      [rightTable |-> "posts", leftTable |-> "users", type |-> "INNER",
       on |-> [left |-> "id", right |-> "userId"], fields |-> <<"title">>,
       orderBy |-> << [field |-> "title", direction |-> "DESC"] >>],
      [rightTable |-> "posts", on |-> [left |-> "id", right |-> "userId"],
       where |-> [connectors |-> "AND", prepositions |->
                    << [field |-> "isActive", value |-> Num(1)],
                       [field |-> "title", operator |-> "LIKE", value |-> Str("a%")] >>]] }

\* joins to Tag: one whose comparison names a targetTable, one with an ordering
\* that names its table, one whose composite names a targetTable
TagJoins ==
    { [rightTable |-> "tags", on |-> [left |-> "id", right |-> "userId"],
       fields |-> <<"label">>,
       where |-> [field |-> "isActive", value |-> Num(1), targetTable |-> "posts"]],
      [rightTable |-> "tags", type |-> "RIGHT", on |-> [left |-> "id", right |-> "userId"],
       orderBy |-> << [table |-> "tags", field |-> "label", direction |-> "ASC"],
                      [field |-> "id", direction |-> "DESC"] >>],
      [rightTable |-> "tags", on |-> [left |-> "id", right |-> "userId"],
       fields |-> <<"label">>,
       where |-> [connectors |-> "OR", targetTable |-> "posts", prepositions |->
                    << [connectors |-> "AND", prepositions |->
                          << [field |-> "isActive", value |-> Num(1)] >>],
                       [field |-> "label", value |-> Str("x")] >>]] }

\* the join lists of a select: a table cannot be joined twice, since the
\* statement gives the joined tables no aliases
JoinLists ==
    { joins \in SeqsUpTo(PostJoins \cup TagJoins, MaxJoins) :
        \A i, j \in 1..Len(joins) : i # j => joins[i].rightTable # joins[j].rightTable }

FieldOptions   == { EmptyObject, [fields |-> <<"id", "username", "settings">>],
                    [fields |-> <<"id">>] }
JoinOptions    == { EmptyObject } \cup { [joins |-> joins] : joins \in JoinLists \ { << >> } }
OrderByOptions == { EmptyObject,
                    [orderBy |-> << [field |-> "username", direction |-> "ASC"],
                                    [field |-> "id", direction |-> "DESC"] >>] }
LimitOptions   == { EmptyObject, [limit |-> Num(10)], [limit |-> Num(10), offset |-> Num(5)],
                    [offset |-> Num(5)], [limit |-> Num(0), offset |-> Num(0)] }

\* SelectOptions<User>
SelectOptions ==
    { f @@ j @@ o @@ l : f \in FieldOptions, j \in JoinOptions,
                         o \in OrderByOptions, l \in LimitOptions }

\* rows of the users table as the driver hands them over: typed columns as
\* text, typed columns already decoded, and a stored name that fails validate
StoredRows ==
    { [id |-> Num(1), username |-> Str("ann"), settings |-> Str(SettingsText),
       createdAt |-> Str(DateText)],
      [id |-> Num(2), username |-> Str("bob"), settings |-> SettingsObject,
       createdAt |-> SomeDate],
      [id |-> Num(3), username |-> Str("al"), settings |-> Null, createdAt |-> Null] }

\* the alias keys the SELECT list of selectWhere asks for
aliasKeys(joins) ==
    UNION { { joins[i].rightTable \o "_" \o field : field \in Range(Opt(joins[i], "fields", << >>)) }
            : i \in 1..Len(joins) }

\* the row the statement yields for a stored row: the projected columns of the
\* main table and every alias, NULL where a LEFT JOIN found no partner
resultRow(stored, options) ==
    LET fields == Opt(options, "fields", << >>)
        alias  == aliasKeys(Opt(options, "joins", << >>))
        main   == IF Len(fields) = 0 THEN DOMAIN stored ELSE Range(fields)
    IN  [key \in main \cup alias |->
            IF key \in alias THEN (IF stored.id = Num(2) THEN Null ELSE Str("First Post"))
            ELSE stored[key]]

QueryError == [name |-> "Error", message |-> Str("ER_BAD_FIELD_ERROR")]

\* what connection.query hands back for a SELECT: a rejection, something that
\* is no array, or rows
selectResponses(options) ==
    { [kind |-> "error", error |-> QueryError], [kind |-> "other"] }
      \cup { [kind |-> "rows", rows |-> rows]
             : rows \in SeqsUpTo({ resultRow(stored, options) : stored \in StoredRows }, MaxRows) }

\* what connection.query hands back for a writing statement
writeResponses ==
    { [kind |-> "error", error |-> QueryError],
      [kind |-> "result", result |-> [insertId |-> Num(7), affectedRows |-> Num(1)]],
      [kind |-> "result", result |-> [insertId |-> Num(0), affectedRows |-> Num(0)]],
      [kind |-> "result", result |-> [affectedRows |-> Num(2)]] }

\* what connection.query hands back for the LIMIT 1 statement of selectRandom:
\* a rejection, no row, or one row of a table whose key column is named id
\* (as the README's User has it) or ID
randomResponses ==
    { [kind |-> "error", error |-> QueryError] }
      \cup { [kind |-> "rows", rows |-> rows]
             : rows \in SeqsUpTo(StoredRows \cup
                                   { [ID |-> Num(1), username |-> Str("ann")],
                                     [ID |-> Num(0), username |-> Str("bob")] }, 1) }

\* what connection.query hands back for a COUNT(*) statement: a rejection,
\* or the one row that holds the count
countResponses ==
    { [kind |-> "error", error |-> QueryError],
      [kind |-> "rows", rows |-> << [count |-> Num(0)] >>],
      [kind |-> "rows", rows |-> << [count |-> Num(3)] >>] }

\* attributes handed to new User(...): valid ones, a name too short, no name
UserAttributes ==
    { [username |-> Str("ann"), email |-> Str("ann@example.com")],
      [id |-> Num(1), username |-> Str("bob"), settings |-> SettingsObject,
       createdAt |-> SomeDate],
      [id |-> Num(0), username |-> Str("cyd"), settings |-> Str(SettingsText)],
      [username |-> Str("al"), email |-> Str("al@example.com")],
      [email |-> Str("nobody@example.com")] }

\* the instances of User that exist
Users == { Entity(attributes).value : attributes \in
             { a \in UserAttributes : Entity(a).kind = "return" } }

\* assignments of updateWhere: one, one increment, a list
Sets ==
    { [field |-> "username", value |-> Str("ann")],
      [field |-> "id", operator |-> "+=", value |-> Num(1)],
      Arr(<< [field |-> "email", operator |-> "=", value |-> Null],
             [field |-> "id", operator |-> "-=", value |-> Num(2)] >>),
      Arr(<< [field |-> "id", operator |-> "+=", value |-> Num(5)],
             [field |-> "username", value |-> Str("bob")],
             [field |-> "email", operator |-> "=", value |-> Str("bob@example.com")] >>) }

\* userDAO.insert(new User(attributes)): the argument is constructed first
InsertNew ==
    /\ op = NoCall
    /\ \E attributes \in UserAttributes, response \in writeResponses :
           LET user    == Entity(attributes)
               outcome == IF user.kind = "throw" THEN [dispatched |-> << >>, ret |-> user]
                          ELSE insert(user.value, response)
           IN  /\ op' = [name |-> "insert", attributes |-> attributes,
                         response |-> response]
               /\ dispatched' = outcome.dispatched
               /\ ret' = outcome.ret
               /\ UNCHANGED <<txVars, whereVars, storeVars, entVars>>

InsertAll ==
    /\ op = NoCall
    /\ \E entities \in SeqsUpTo(Users, MaxEntities), response \in writeResponses :
               LET outcome == insertAll(entities, response)
               IN  /\ op' = [name |-> "insertAll", entities |-> entities, response |-> response]
                   /\ dispatched' = outcome.dispatched
                   /\ ret' = outcome.ret
                   /\ UNCHANGED <<txVars, whereVars, storeVars, entVars>>

UpsertAll ==
    /\ op = NoCall
    /\ \E entities \in SeqsUpTo(Users, MaxEntities), response \in writeResponses :
               LET outcome == upsertAll(entities, response)
               IN  /\ op' = [name |-> "upsertAll", entities |-> entities, response |-> response]
                   /\ dispatched' = outcome.dispatched
                   /\ ret' = outcome.ret
                   /\ UNCHANGED <<txVars, whereVars, storeVars, entVars>>

SelectWhere ==
    /\ op = NoCall
    /\ \E where \in DaoWheres, options \in SelectOptions :
               \E response \in selectResponses(options) :
                   LET outcome == selectWhere(where, options, response)
                   IN  /\ op' = [name |-> "selectWhere", where |-> where, options |-> options, response |-> response]
                       /\ dispatched' = outcome.dispatched
                       /\ ret' = outcome.ret
                       /\ UNCHANGED <<txVars, whereVars, storeVars, entVars>>

SelectWhereID ==
    /\ op = NoCall
    /\ \E id \in {Num(1)}, options \in FieldOptions \cup JoinOptions :
               \E response \in selectResponses(options) :
                   LET outcome == selectWhereID(id, options, response)
                   IN  /\ op' = [name |-> "selectWhereID", id |-> id, options |-> options, response |-> response]
                       /\ dispatched' = outcome.dispatched
                       /\ ret' = outcome.ret
                       /\ UNCHANGED <<txVars, whereVars, storeVars, entVars>>

\* the pages and page sizes selectAllPaginated is called with
MaxPage == 3
PageSizes == {1, 10}

SelectAllPaginated ==
    /\ op = NoCall
    /\ \E page \in 1..MaxPage, offset \in PageSizes, options \in JoinOptions \cup OrderByOptions :
               \E response \in selectResponses(options) :
                   LET outcome == selectAllPaginated(page, offset, options, response)
                   IN  /\ op' = [name |-> "selectAllPaginated", page |-> page, offset |-> offset, options |-> options, response |-> response]
                       /\ dispatched' = outcome.dispatched
                       /\ ret' = outcome.ret
                       /\ UNCHANGED <<txVars, whereVars, storeVars, entVars>>

SelectAll ==
    /\ op = NoCall
    /\ \E o \in OrderByOptions, l \in LimitOptions :
               \E response \in selectResponses(EmptyObject) :
                   LET outcome == selectAll(o @@ l, response)
                   IN  /\ op' = [name |-> "selectAll", options |-> o @@ l, response |-> response]
                       /\ dispatched' = outcome.dispatched
                       /\ ret' = outcome.ret
                       /\ UNCHANGED <<txVars, whereVars, storeVars, entVars>>

SelectRandom ==
    /\ op = NoCall
    /\ \E response \in randomResponses :
           LET outcome == selectRandom(response)
           IN  /\ op' = [name |-> "selectRandom", response |-> response]
               /\ dispatched' = outcome.dispatched
               /\ ret' = outcome.ret
               /\ UNCHANGED <<txVars, whereVars, storeVars, entVars>>

CountAll ==
    /\ op = NoCall
    /\ \E response \in countResponses :
           LET outcome == count(response)
           IN  /\ op' = [name |-> "count", response |-> response]
               /\ dispatched' = outcome.dispatched
               /\ ret' = outcome.ret
               /\ UNCHANGED <<txVars, whereVars, storeVars, entVars>>

CountWhere ==
    /\ op = NoCall
    /\ \E where \in DaoWheres, response \in countResponses :
               LET outcome == countWhere(where, response)
               IN  /\ op' = [name |-> "countWhere", where |-> where, response |-> response]
                   /\ dispatched' = outcome.dispatched
                   /\ ret' = outcome.ret
                   /\ UNCHANGED <<txVars, whereVars, storeVars, entVars>>

\* instances whose username an update call has made too short
ShortenedUsers == { User_update(user, [username |-> Str("al")]) : user \in Users }

Update ==
    /\ op = NoCall
    /\ \E entity \in Users \cup ShortenedUsers, response \in writeResponses :
               LET outcome == update(entity, response)
               IN  /\ op' = [name |-> "update", entity |-> entity, response |-> response]
                   /\ dispatched' = outcome.dispatched
                   /\ ret' = outcome.ret
                   /\ UNCHANGED <<txVars, whereVars, storeVars, entVars>>

UpdateWhere ==
    /\ op = NoCall
    /\ \E where \in DaoWheres, set \in Sets :
               \E response \in { r \in writeResponses :
                                   r.kind = "result" => "affectedRows" \in DOMAIN r.result } :
                   LET outcome == updateWhere(where, set, response)
                   IN  /\ op' = [name |-> "updateWhere", where |-> where, set |-> set, response |-> response]
                       /\ dispatched' = outcome.dispatched
                       /\ ret' = outcome.ret
                       /\ UNCHANGED <<txVars, whereVars, storeVars, entVars>>

DeleteWhere ==
    /\ op = NoCall
    /\ \E where \in DaoWheres, selected \in selectResponses(EmptyObject),
              deleted \in writeResponses :
               LET outcome == deleteWhere(where, selected, deleted)
               IN  /\ op' = [name |-> "deleteWhere", where |-> where, selected |-> selected, deleted |-> deleted]
                   /\ dispatched' = outcome.dispatched
                   /\ ret' = outcome.ret
                   /\ UNCHANGED <<txVars, whereVars, storeVars, entVars>>

DeleteWhereID ==
    /\ op = NoCall
    /\ \E id \in {Num(1)}, selected \in selectResponses(EmptyObject),
              deleted \in writeResponses :
               LET outcome == deleteWhereID(id, selected, deleted)
               IN  /\ op' = [name |-> "deleteWhereID", id |-> id, selected |-> selected, deleted |-> deleted]
                   /\ dispatched' = outcome.dispatched
                   /\ ret' = outcome.ret
                   /\ UNCHANGED <<txVars, whereVars, storeVars, entVars>>

Delete ==
    /\ op = NoCall
    /\ \E entity \in Users, selected \in selectResponses(EmptyObject),
              deleted \in writeResponses :
               LET outcome == delete(entity, selected, deleted)
               IN  /\ op' = [name |-> "delete", entity |-> entity, selected |-> selected, deleted |-> deleted]
                   /\ dispatched' = outcome.dispatched
                   /\ ret' = outcome.ret
                   /\ UNCHANGED <<txVars, whereVars, storeVars, entVars>>

\* the caller has its answer and may call again
DaoCallAgain ==
    /\ op # NoCall
    /\ op' = NoCall
    /\ dispatched' = << >>
    /\ ret' = NoReturn
    /\ UNCHANGED <<txVars, whereVars, storeVars, entVars>>

DaoNext ==
    \/ InsertNew
    \/ InsertAll
    \/ UpsertAll
    \/ SelectWhere
    \/ SelectWhereID
    \/ SelectAllPaginated
    \/ SelectAll
    \/ SelectRandom
    \/ CountAll
    \/ CountWhere
    \/ Update
    \/ UpdateWhere
    \/ DeleteWhere
    \/ DeleteWhereID
    \/ Delete
    \/ DaoCallAgain

InitDAO == TxInit /\ WhereIdle /\ DaoIdle /\ StoreIdle /\ EntIdle

SpecDAO == InitDAO /\ [][DaoNext]_vars

(***************************************************************************)
(* deleteWhere among other calls that share the pool: its SELECT and its   *)
(* DELETE are two awaited statements, and statements of other calls may    *)
(* reach the table between them.                                           *)
(***************************************************************************)
\* bounds: rows the table may hold, statements the other calls run
MaxStoredRows == 2
MaxOthers == 2

RowIds == 1..MaxStoredRows

\* the ids of the stored rows the condition of the deleteWhere call selects
Matching(rows) == {id \in DOMAIN rows : rows[id] = "matching"}

InitStore ==
    /\ tableRows \in [RowIds -> {"absent", "matching", "other"}]
    /\ delPc = "select"
    /\ delRows = {}
    /\ removed = {}
    /\ others = 0
    /\ TxInit
    /\ WhereIdle
    /\ DaoIdle
    /\ EntIdle

\* deleteWhere, line 596: const rows = await this.selectWhere(where)
DeleteWhereSelect ==
    /\ delPc = "select"
    /\ delRows' = Matching(tableRows)
    /\ delPc' = "delete"
    /\ UNCHANGED <<tableRows, removed, others, txVars, whereVars, daoVars, entVars>>

\* deleteWhere, lines 601-606: rows is truthy, the DELETE is awaited and
\* rows is returned
DeleteWhereDelete ==
    /\ delPc = "delete"
    /\ removed' = Matching(tableRows)
    /\ tableRows' = [id \in DOMAIN tableRows |->
                       IF tableRows[id] = "matching" THEN "absent" ELSE tableRows[id]]
    /\ delPc' = "done"
    /\ UNCHANGED <<delRows, others, txVars, whereVars, daoVars, entVars>>

\* another call inserts a row, matching the condition or not
OtherInsert ==
    /\ others < MaxOthers
    /\ \E id \in RowIds, kind \in {"matching", "other"} :
          /\ tableRows[id] = "absent"
          /\ tableRows' = [tableRows EXCEPT ![id] = kind]
    /\ others' = others + 1
    /\ UNCHANGED <<delPc, delRows, removed, txVars, whereVars, daoVars, entVars>>

\* another call updates a stored row so that it matches, or matches no longer
OtherUpdate ==
    /\ others < MaxOthers
    /\ \E id \in RowIds :
          /\ tableRows[id] # "absent"
          /\ tableRows' = [tableRows EXCEPT
                             ![id] = IF @ = "matching" THEN "other" ELSE "matching"]
    /\ others' = others + 1
    /\ UNCHANGED <<delPc, delRows, removed, txVars, whereVars, daoVars, entVars>>

\* another call deletes a stored row
OtherDelete ==
    /\ others < MaxOthers
    /\ \E id \in RowIds :
          /\ tableRows[id] # "absent"
          /\ tableRows' = [tableRows EXCEPT ![id] = "absent"]
    /\ others' = others + 1
    /\ UNCHANGED <<delPc, delRows, removed, txVars, whereVars, daoVars, entVars>>

StoreNext ==
    \/ DeleteWhereSelect
    \/ DeleteWhereDelete
    \/ OtherInsert
    \/ OtherUpdate
    \/ OtherDelete

SpecStore == InitStore /\ [][StoreNext]_vars

(***************************************************************************)
(* One entity instance: built by new User(attributes), from attributes a   *)
(* caller wrote or from a row selectWhere read with joins, then updated,   *)
(* serialized with toDBRecord, and built again from the record.            *)
(***************************************************************************)
MaxUpdates == 2
MaxSerializations == 2

\* the offsets from UTC, in hours east, of the processes considered
TimeZones == {-5, 0, 2}

\* a date with milliseconds
SomeDateAndMillis == DateV([s |-> 1704164645, ms |-> 5])

\* the instances construction can give: of attributes a caller wrote, and of
\* rows read with joins (they carry _joins)
HydratedUsers ==
    { Entity(rowAttributes(resultRow(stored, [joins |-> joins]), << >>, joins)).value :
        stored \in { r \in StoredRows : Len(r.username.v) >= 3 },
        joins \in JoinLists \ { << >> } }
EntityStates == Users \cup HydratedUsers

\* what update is called with
UpdateAttributes ==
    { [email |-> Undefined],
      [settings |-> ListValue],
      [createdAt |-> SomeDateAndMillis],
      [username |-> Str("bobby"), createdAt |-> Epoch],
      [_joins |-> Obj([posts |-> Obj([title |-> Str("Second Post")])])],
      [settings |-> SomeDate, email |-> Epoch],
      [createdAt |-> Null, settings |-> Null, email |-> Null],
      [settings |-> Str("5"), createdAt |-> Str("soon")],
      [id |-> Num(9), username |-> Str("al"), createdAt |-> Str(DateText)],
      [settings |-> Str("oops"), createdAt |-> Num(86400000)] }

InitEntity ==
    /\ timezone \in TimeZones
    /\ ent \in EntityStates
    /\ rec = NotSerialized
    /\ updates = 0
    /\ hydrated = NotHydrated
    /\ TxInit /\ WhereIdle /\ DaoIdle /\ StoreIdle

\* user.update(attributes)
UserUpdate ==
    /\ updates < MaxUpdates
    /\ \E attributes \in UpdateAttributes :
           /\ ent' = User_update(ent, attributes)
           /\ updates' = updates + 1
           /\ rec' = NotSerialized
           /\ hydrated' = NotHydrated
           /\ UNCHANGED <<timezone, txVars, whereVars, daoVars, storeVars>>

\* user.toDBRecord()
Serialize ==
    /\ rec.calls < MaxSerializations
    /\ LET call == toDBRecordCall(ent)
       IN  /\ ent' = call.this
           /\ rec' = [calls |-> rec.calls + 1, record |-> call.record]
           /\ UNCHANGED <<timezone, updates, hydrated, txVars, whereVars, daoVars, storeVars>>

\* the record is read back: init(record) of a new instance
Hydrate ==
    /\ rec.calls > 0
    /\ ~hydrated.done
    /\ hydrated' = [done |-> TRUE, fields |-> init(rec.record)]
    /\ UNCHANGED <<timezone, ent, rec, updates, txVars, whereVars, daoVars, storeVars>>

EntityNext ==
    \/ UserUpdate
    \/ Serialize
    \/ Hydrate

SpecEntity == InitEntity /\ [][EntityNext]_vars


(***************************************************************************)
(* Claims about buildWhereClause                                           *)
(***************************************************************************)
IsComposite(w) == "connectors" \in DOMAIN w

RECURSIVE LeavesOf(_)
RECURSIVE LeavesOfAll(_)

\* the comparisons of a condition tree in pre-order, left to right
LeavesOf(w) == IF IsComposite(w) THEN LeavesOfAll(w.prepositions) ELSE <<w>>

LeavesOfAll(ws) ==
    IF ws = << >> THEN << >> ELSE LeavesOf(Head(ws)) \o LeavesOfAll(Tail(ws))

\* the text a comparison is expected to compile to
FragmentOf(leaf) ==
    IF "operator" \notin DOMAIN leaf THEN <<"??", ".", "??", " ", "=", " ", "?">>
    ELSE IF leaf.operator = "IN" THEN <<"??", ".", "??", " ", "IN", " (", "?", ")">>
    ELSE <<"??", ".", "??", " ", leaf.operator, " ", "?">>

RECURSIVE TextOf(_)
RECURSIVE TextOfAll(_, _)

\* the text a condition tree is expected to compile to
TextOf(w) ==
    IF IsComposite(w)
    THEN <<"(">> \o TextOfAll(w.prepositions, w.connectors) \o <<")">>
    ELSE FragmentOf(w)

TextOfAll(ws, connector) ==
    IF ws = << >> THEN << >>
    ELSE IF Len(ws) = 1 THEN TextOf(ws[1])
    ELSE TextOf(ws[1]) \o <<" ", connector, " ">> \o TextOfAll(Tail(ws), connector)

\* where the comparison fragments start in a SQL text
FragmentStarts(sql) ==
    {i \in 1..(Len(sql) - 1) : sql[i] = "??" /\ sql[i + 1] = "."}

\* the start of the k-th comparison fragment
FragmentStart(sql, k) ==
    CHOOSE i \in FragmentStarts(sql) :
        Cardinality({j \in FragmentStarts(sql) : j <= i}) = k

WasBuilt == "sql" \in DOMAIN built

\* C5: buildWhereClause appends parameters in pre-order, left-to-right leaf
\* order: the k-th comparison of the tree contributes the k-th consecutive
\* triple (table name, field name, value), and its fragment is the k-th
\* comparison fragment of the text; a comparison without operator compiles
\* with '=', an IN comparison to ??.?? IN (?), and a composite to its
\* children's fragments joined by ' <connector> ' inside one pair of parentheses.
ParametersFollowLeafOrder ==
    WasBuilt =>
        LET leaves == LeavesOf(cond)
        IN  /\ Len(built.params) = 3 * Len(leaves)
            /\ Cardinality(FragmentStarts(built.sql)) = Len(leaves)
            /\ \A k \in 1..Len(leaves) :
                  /\ built.params[3 * k - 2] \in {Str(t) : t \in Tables}
                  /\ built.params[3 * k - 1] = Str(leaves[k].field)
                  /\ built.params[3 * k] = leaves[k].value
                  /\ LET from == FragmentStart(built.sql, k)
                         frag == FragmentOf(leaves[k])
                     IN  SubSeq(built.sql, from, from + Len(frag) - 1) = frag
            /\ built.sql = TextOf(cond)

\* C5 witness: a composite holding a nested composite with an IN comparison,
\* followed by a comparison without operator, has been compiled
NestedConditionCompiled ==
    /\ WasBuilt
    /\ cond = [connectors |-> "AND", prepositions |->
                 << [connectors |-> "OR", prepositions |->
                       << [field |-> "id", operator |-> "IN",
                           value |-> Arr(<<Num(1), Num(2)>>)] >>],
                    [field |-> "id", value |-> Num(1)] >>]
    /\ Len(built.params) = 6

\* fields and values to put in place of a comparison's own
VariantFields == {"id", "name"}
VariantValues == {Num(1), Str("x' OR '1'='1")}

RECURSIVE VariantsOf(_)
RECURSIVE VariantsOfAll(_)

\* the condition trees of the same shape, connectors and operators as w
VariantsOf(w) ==
    IF IsComposite(w)
    THEN { [connectors |-> w.connectors, prepositions |-> ps]
           : ps \in VariantsOfAll(w.prepositions) }
    ELSE { [w EXCEPT !.field = f, !.value = v] : f \in VariantFields, v \in VariantValues }

VariantsOfAll(ws) ==
    IF ws = << >> THEN { << >> }
    ELSE { <<h>> \o t : h \in VariantsOf(Head(ws)), t \in VariantsOfAll(Tail(ws)) }

\* C6: the SQL text of a condition does not depend on its values or field
\* names: every tree of the same shape, connectors and operators compiles to
\* the same text, and the difference shows in the parameter list only.
TextIndependentOfValues ==
    WasBuilt =>
        \A w \in VariantsOf(cond) :
            LET other == buildWhereClause(w, << >>, condTable)
            IN  /\ other.sql = built.sql
                /\ Len(other.params) = Len(built.params)
                /\ (LeavesOf(w) # LeavesOf(cond)) <=> (other.params # built.params)

\* C6 witness: a tree of three comparisons has been compiled, and a tree of the
\* same shape carrying a quote-laden string compiles to other parameters
SameShapeOtherValuesCompiled ==
    /\ WasBuilt
    /\ Len(LeavesOf(cond)) = 3
    /\ \E w \in VariantsOf(cond) :
          /\ \E k \in 1..3 : LeavesOf(w)[k].value = Str("x' OR '1'='1")
          /\ buildWhereClause(w, << >>, condTable).params # built.params

(***************************************************************************)
(* Claims about runInTransaction                                           *)
(***************************************************************************)
\* the operations of the log that runInTransaction itself performs
OwnOps(log) == SelectSeq(log, LAMBDA e : e # "query")

\* C1: when the pool hands out a connection, release() is called on it exactly
\* once and nothing is done on the connection after it, whichever step failed;
\* when getConnection itself fails, release is never called.
ReleasedExactlyOnceAndLast ==
    /\ \A i \in Positions(txLog, "release") : i = Len(txLog)
    /\ Count(txLog, "release") <= 1
    /\ (txPc = "done" /\ connection = "conn")
          => (Count(txLog, "release") = 1 /\ txLog[Len(txLog)] = "release")
    /\ connection = "null" => txLog = << >>
    /\ (txPc = "done" /\ txFailed = "getConnection")
          => (connection = "null" /\ Count(txLog, "release") = 0)

\* C1 witness: a call whose callback failed and whose rollback failed too has
\* finished, and the connection was released
ReleasedAfterFailedRollback ==
    /\ txPc = "done"
    /\ txFailed = "callback"
    /\ txRollback \in RollbackErrors
    /\ Count(txLog, "release") = 1

\* C2: when the callback fails with error E, commit is never invoked, rollback
\* is invoked exactly once, and the caller gets E itself; when that rollback
\* fails, the caller gets the rollback's failure instead.
CallbackFailureRollsBackAndRethrows ==
    txFailed = "callback" =>
        /\ Count(txLog, "commit") = 0
        /\ Count(txLog, "rollback") <= 1
        /\ txPc \in {"finally", "done"} =>
              /\ Count(txLog, "rollback") = 1
              /\ txError \in WorkErrors \cup QueryErrors
              /\ txRollback = "ok" => txOutcome = [kind |-> "throw", value |-> txError]
              /\ txRollback \in RollbackErrors
                    => txOutcome = [kind |-> "throw", value |-> txRollback]
              /\ txRollback # "none"

\* C2 witness: the callback failed, the rollback failed, the call has settled
CallbackAndRollbackFailed ==
    /\ txPc = "done"
    /\ txFailed = "callback"
    /\ txError = "EWork"
    /\ txRollback = "ERollback"

\* C3: when beginTransaction and the callback both succeed, commit is invoked
\* exactly once, after the callback and before release; when that commit
\* succeeds rollback is never invoked and the call returns exactly the value
\* the callback produced; the operations on the connection come in the order
\* acquire, begin, work, commit, release (a rollback, after a failed commit,
\* comes between commit and release).
CommitOnceThenReturnResult ==
    (txPc = "done" /\ txResult # "none") =>
        /\ Count(txLog, "commit") = 1
        /\ Before(txLog, "callback", "commit")
        /\ Before(txLog, "query", "commit")
        /\ Before(txLog, "commit", "release")
        /\ txFailed = "none" =>
              /\ Count(txLog, "rollback") = 0
              /\ txOutcome = [kind |-> "return", value |-> txResult]
              /\ OwnOps(txLog) = <<"getConnection", "beginTransaction", "callback",
                                   "commit", "release">>
        /\ txFailed # "none" =>
              /\ txFailed = "commit"
              /\ OwnOps(txLog) = <<"getConnection", "beginTransaction", "callback",
                                   "commit", "rollback", "release">>

\* C3 witness: a call whose callback ran statements and resolved with v1 has
\* committed and returned
CommittedAndReturned ==
    /\ txPc = "done"
    /\ txResult = "v1"
    /\ txQueries = MaxWorkOps
    /\ txOutcome.kind = "return"

(***************************************************************************)
(* Claims about the DAO's operations                                       *)
(***************************************************************************)
\* the placeholders of a SQL text
Placeholders(sql) == Count(sql, "??") + Count(sql, "?")

\* C4: whatever operation is called and whatever its inputs, each dispatched
\* SQL text holds as many placeholders (?? and ?) as the parameter list
\* dispatched with it holds values.
PlaceholdersMatchParameters ==
    \A i \in 1..Len(dispatched) :
        Placeholders(dispatched[i].sql) = Len(dispatched[i].params)

\* C4 witness: a select with a composite condition, a projection, two joins,
\* one with a condition and one with an ordering of its own, a limit and an
\* offset went out
FullSelectDispatched ==
    /\ op.name = "selectWhere"
    /\ op.where # Null
    /\ IsComposite(op.where)
    /\ DOMAIN op.options = {"fields", "joins", "orderBy", "limit", "offset"}
    /\ Len(op.options.joins) = 2
    /\ \E i \in 1..2 : "where" \in DOMAIN op.options.joins[i]
    /\ \E i \in 1..2 : "orderBy" \in DOMAIN op.options.joins[i]
    /\ Len(dispatched) = 1
    /\ Placeholders(dispatched[1].sql) > 20

\* the parameters the comparisons contribute when all are qualified with table
QualifiedLeaves(leaves, table) ==
    Flatten([k \in 1..Len(leaves) |->
               <<Str(table), Str(leaves[k].field), leaves[k].value>>])

\* the parameters the conditions of the joins are expected to contribute
JoinConditionParameters(joins) ==
    Flatten([i \in 1..Len(joins) |->
               IF "where" \in DOMAIN joins[i]
               THEN QualifiedLeaves(LeavesOf(joins[i].where),
                                    Opt(joins[i].where, "targetTable", joins[i].rightTable))
               ELSE << >>])

\* C7: in the statement of selectWhere the comparisons of the main condition
\* are qualified with the DAO's own table, and every comparison of a join's
\* condition, nested ones included, with the condition's targetTable when it
\* names one and with the join's right table otherwise.
JoinConditionsQualified ==
    op.name = "selectWhere" =>
        LET joins    == Opt(op.options, "joins", << >>)
            params   == dispatched[1].params
            before   == 2 * Len(Opt(op.options, "fields", << >>)) + 1 + 3 * Len(joins)
            expected == QualifiedLeaves(IF op.where = Null THEN << >> ELSE LeavesOf(op.where),
                                        entityName)
                          \o JoinConditionParameters(joins)
        IN  SubSeq(params, before + 1, before + Len(expected)) = expected

\* the rows answered and the entities returned by a successful selectWhere
Answered == op.name = "selectWhere" /\ ret.kind = "return"

\* the alias keys of the declared fields of the joins that row holds
PresentAliases(joins, row) ==
    { key \in aliasKeys(joins) : key \in DOMAIN row }

\* joins[rightTable][f] of every returned entity is the row's value under the
\* alias key, and no alias key is an own attribute
AliasesMoved ==
    Answered =>
        LET joins == Opt(op.options, "joins", << >>)
        IN  \A i \in 1..Len(op.response.rows) :
              LET row    == op.response.rows[i]
                  entity == ret.value.v[i].v
              IN  \A j \in 1..Len(joins) :
                    \A f \in Range(Opt(joins[j], "fields", << >>)) :
                      LET key == joins[j].rightTable \o "_" \o f
                      IN  key \in DOMAIN row =>
                            /\ entity._joins.v[joins[j].rightTable].v[f] = row[key]
                            /\ key \notin DOMAIN entity

\* the value the constructor stores for a row's value: JSON text of a
\* JSON-kind column as the object it denotes, date text of a DATE-kind column
\* as the date, anything else as it is
Hydrated(key, value) ==
    IF key = "settings" /\ value = Str(SettingsText) THEN SettingsObject
    ELSE IF key = "createdAt" /\ value = Str(DateText) THEN SomeDate
    ELSE value

\* C8 as amended: for every row answered to selectWhere, each present alias
\* key <rightTable>_<f> of a join's declared field is found under
\* joins[rightTable][f] with the row's value and is no own attribute; every
\* other row key is an own attribute holding the row's value as the
\* constructor hydrates it (text of a JSON or DATE column decoded).
RowsDemultiplexedAndHydrated ==
    /\ AliasesMoved
    /\ Answered =>
         \A i \in 1..Len(op.response.rows) :
           LET row    == op.response.rows[i]
               entity == ret.value.v[i].v
           IN  \A key \in DOMAIN row \ PresentAliases(Opt(op.options, "joins", << >>), row) :
                 /\ key \in DOMAIN entity
                 /\ entity[key] = Hydrated(key, row[key])

\* C8 as stated: the same about the alias keys, and every other row key is an
\* own attribute with the very value the row holds.
RowsDemultiplexedVerbatim ==
    /\ AliasesMoved
    /\ Answered =>
         \A i \in 1..Len(op.response.rows) :
           LET row    == op.response.rows[i]
               entity == ret.value.v[i].v
           IN  \A key \in DOMAIN row \ PresentAliases(Opt(op.options, "joins", << >>), row) :
                 /\ key \in DOMAIN entity
                 /\ entity[key] = row[key]

\* C8 witness: a row with the aliases of posts.title and tags.label and with
\* settings as text came back as an entity holding both under joins and the
\* decoded settings
JoinedRowReturned ==
    /\ Answered
    /\ "fields" \notin DOMAIN op.options
    /\ Len(op.response.rows) = 2
    /\ {"posts_title", "tags_label"} \subseteq DOMAIN op.response.rows[1]
    /\ op.response.rows[1].settings = Str(SettingsText)
    /\ ret.value.v[1].v._joins.v["posts"].v["title"] = Str("First Post")
    /\ ret.value.v[1].v._joins.v["tags"].v["label"] = Str("First Post")
    /\ ret.value.v[1].v.settings = SettingsObject
    /\ "posts_title" \notin DOMAIN ret.value.v[1].v

\* the README's validate returns a string for these attributes
FailsValidation(attributes) ==
    \/ "username" \notin DOMAIN attributes
    \/ Len(attributes.username.v) < 3

\* C9: new User(attributes) throws an EntityValidationError carrying the string
\* validate returned exactly when validate returned a string, so that an insert
\* of such attributes dispatches nothing; otherwise the entity exists and its
\* insert is dispatched.
InvalidEntityNeverInserted ==
    op.name = "insert" =>
        IF FailsValidation(op.attributes)
        THEN /\ ret = Throw([name |-> "EntityValidationError",
                             message |-> Str("Username must be at least 3 characters.")])
             /\ dispatched = << >>
        ELSE /\ Len(dispatched) = 1
             /\ ret.kind = "throw" => ret.value.name # "EntityValidationError"

\* C9 witness: attributes with a two-letter username were handed to insert
ShortNameRejected ==
    /\ op.name = "insert"
    /\ "username" \in DOMAIN op.attributes
    /\ op.attributes.username = Str("al")
    /\ ret.kind = "throw"
    /\ ret.value.name = "EntityValidationError"
    /\ dispatched = << >>

\* a DELETE statement is among those dispatched
DeleteDispatched ==
    \E i \in 1..Len(dispatched) : dispatched[i].sql[1] = "DELETE FROM "

\* the select that looks for the rows to delete found none
NothingMatched == op.selected.kind = "rows" /\ op.selected.rows = << >>

\* the call is over without a DELETE, and what it returned, if it returned, is null
NullWithoutDelete == ~DeleteDispatched /\ (ret.kind = "return" => ret = Return(Null))

\* C10: deleteWhere returns null and dispatches no DELETE when no stored row
\* matches and when no condition is given; so do deleteWhereID and delete when
\* no row matches, and delete without an id returns null and dispatches nothing.
NothingToDeleteReturnsNull ==
    /\ (op.name = "deleteWhere" /\ (op.where = Null \/ NothingMatched)) => NullWithoutDelete
    /\ (op.name = "deleteWhereID" /\ NothingMatched) => NullWithoutDelete
    /\ (op.name = "delete" /\ ~Truthy(Opt(op.entity, "id", Undefined)))
          => (ret = Return(Null) /\ dispatched = << >>)
    /\ (op.name = "delete" /\ Truthy(Opt(op.entity, "id", Undefined)) /\ NothingMatched)
          => NullWithoutDelete

(***************************************************************************)
(* Claims about deleteWhere among concurrent calls                         *)
(***************************************************************************)
\* C11: whatever other calls do between the two statements of deleteWhere,
\* the entities it returns are exactly the rows its DELETE removed.
ReturnedRowsAreTheRemovedRows ==
    delPc = "done" => delRows = removed

\* the one row selectRandom was answered with passes the README's validate
ValidRowAnswered ==
    /\ op.response.kind = "rows"
    /\ Len(op.response.rows) = 1
    /\ ~FailsValidation(op.response.rows[1])

\* C12: selectRandom returns null, without raising, when the table is empty,
\* and a hydrated entity whenever the table holds a row.
RandomEntityOrNull ==
    op.name = "selectRandom" =>
        /\ (op.response.kind = "rows" /\ Len(op.response.rows) = 0) => ret = Return(Null)
        /\ ValidRowAnswered => (ret.kind = "return" /\ ret.value.t = "entity")

\* C13: count() returns the number of rows the execution layer reports for the
\* table, the same as countWhere without condition returns on that answer, and
\* countWhere(c) returns the number reported for the rows matching c.
CountsAreTheReportedCounts ==
    (op.name \in {"count", "countWhere"} /\ op.response.kind = "rows") =>
        /\ ret = Return(op.response.rows[1].count)
        /\ op.name = "count" => ret = countWhere(Null, op.response).ret

\* ---------------------------------------------------------------------------
\* C14: selectAllPaginated(page, n) dispatches exactly one statement, the one
\* selectWhere builds for the condition id > 0 with the caller's joins and
\* orderings unchanged; the statement ends in LIMIT ? OFFSET ? bound to n and
\* (page - 1) * n, and its first condition is users.id > 0.
SubSeqAt(s, i, sub) ==
    /\ i + Len(sub) - 1 <= Len(s)
    /\ \A j \in 1..Len(sub) : s[i + j - 1] = sub[j]

PassedThrough(options) ==
    [k \in DOMAIN options \cap {"joins", "orderBy"} |-> options[k]]

PageDispatched ==
    /\ op.name = "selectAllPaginated"
    /\ Len(dispatched) = 1

InsertCalled ==
    /\ op.name = "insert"
    /\ ~FailsValidation(op.attributes)

InsertOutcomeIsTheResponse ==
    InsertCalled =>
        /\ Len(dispatched) = 1
        /\ dispatched[1].sql = <<"INSERT INTO ", "??", " SET ", "?">>
        /\ dispatched[1].params[1] = Str(entityName)
        /\ CASE op.response.kind = "error" -> ret = Throw(op.response.error)
              [] op.response.kind = "result" /\ "insertId" \in DOMAIN op.response.result ->
                     ret = Return(op.response.result.insertId)
              [] OTHER ->
                     /\ ret.kind = "throw"
                     /\ ret.value.message = Str("Insert failed - no insertId returned")
                     /\ ret.value # QueryError

InsertWithoutIdRaised ==
    /\ InsertCalled
    /\ op.response.kind = "result"
    /\ "insertId" \notin DOMAIN op.response.result
    /\ ret = Throw(InsertFailed)
    /\ Len(dispatched) = 1

\* ---------------------------------------------------------------------------
\* C16: insertAll and upsertAll of no entities dispatch nothing and return
\* the empty list; of one or more entities they dispatch exactly one
\* statement.  When the statement succeeds upsertAll returns the empty list
\* and insertAll a list of at most one identifier, the reported one.
BulkCalled == op.name \in {"insertAll", "upsertAll"}

AssignmentsOf(set) == IF "field" \in DOMAIN set THEN <<set>> ELSE set.v

AssignmentText(assignment) ==
    CASE Opt(assignment, "operator", "=") = "+=" -> <<"??", " = ", "??", " + ", "?">>
      [] Opt(assignment, "operator", "=") = "-=" -> <<"??", " = ", "??", " - ", "?">>
      [] OTHER -> <<"??", " = ", "?">>

AssignmentParameters(assignment) ==
    IF Opt(assignment, "operator", "=") \in {"+=", "-="}
    THEN <<Str(assignment.field), Str(assignment.field), assignment.value>>
    ELSE <<Str(assignment.field), assignment.value>>

RECURSIVE AssignmentList(_)
AssignmentList(assignments) ==
    IF assignments = << >> THEN [sql |-> << >>, params |-> << >>]
    ELSE LET rest == AssignmentList(Tail(assignments))
         IN  [ sql    |-> AssignmentText(Head(assignments))
                            \o (IF Tail(assignments) = << >> THEN << >> ELSE <<", ">>)
                            \o rest.sql,
               params |-> AssignmentParameters(Head(assignments)) \o rest.params ]

UpdateWhereCalled ==
    /\ op.name = "updateWhere"
    /\ Len(dispatched) = 1

AssignmentsThenFilter ==
    op.name = "updateWhere" =>
        /\ Len(dispatched) = 1
        /\ LET expected == AssignmentList(AssignmentsOf(op.set))
               filter   == IF op.where = Null THEN [sql |-> << >>, params |-> << >>]
                           ELSE buildWhereClause(op.where, << >>, entityName)
               sql      == dispatched[1].sql
               params   == dispatched[1].params
               nSet     == Len(expected.sql)
               nParams  == Len(expected.params)
           IN  /\ SubSeqAt(sql, 1, <<"UPDATE ", "??", " SET">>)
               /\ SubSeqAt(sql, 4, expected.sql)
               /\ Count(SubSeq(sql, 4, 3 + nSet), ", ") = Len(AssignmentsOf(op.set)) - 1
               /\ IF op.where = Null THEN Len(sql) = 3 + nSet
                  ELSE sql = SubSeq(sql, 1, 3 + nSet) \o <<" WHERE ">> \o filter.sql
               /\ params = <<Str(entityName)>> \o expected.params \o filter.params
               /\ Count(sql, "?") + Count(sql, "??") = Len(params)
        /\ op.response.kind = "result" => ret = Return(op.response.result.affectedRows)
        /\ op.response.kind = "error" => ret = Throw(op.response.error)

SeveralAssignmentsFiltered ==
    /\ UpdateWhereCalled
    /\ Len(AssignmentsOf(op.set)) = 3
    /\ "operator" \notin DOMAIN AssignmentsOf(op.set)[2]
    /\ op.where # Null
    /\ "connectors" \in DOMAIN op.where
    /\ op.response.kind = "result"
    /\ ret = Return(Num(2))

\* ---------------------------------------------------------------------------
\* C18: whatever attributes an instance was built from (a joined row
\* included) and whatever it was updated with, the record toDBRecord returns
\* has no _joins key, and neither the parameters nor the column lists of the
\* statements insert, insertAll, upsertAll and update build from the
\* instance name _joins.
StatementsOf(entity) ==
    LET response == [kind |-> "error", error |-> QueryError]
    IN  Range(insert(entity, response).dispatched)
          \cup Range(insertAll(<<entity>>, response).dispatched)
          \cup Range(upsertAll(<<entity>>, response).dispatched)
          \cup Range(update(entity, response).dispatched)

CarriesJoins(statement) ==
    \/ \E i \in 1..Len(statement.params) :
          /\ statement.params[i].t = "object"
          /\ "_joins" \in DOMAIN statement.params[i].v
    \/ \E i \in 1..Len(statement.sql) :
          statement.sql[i] \in { "_joins", quoted("_joins"),
                                 quoted("_joins") \o " = VALUES(" \o quoted("_joins") \o ")" }

JoinsNeverSerialized ==
    /\ rec.calls > 0 => "_joins" \notin DOMAIN rec.record
    /\ (ent # EmptyObject /\ rec.calls = 0) =>
          /\ Cardinality(StatementsOf(ent)) = 4
          /\ \A statement \in StatementsOf(ent) : ~CarriesJoins(statement)

JoinedInstanceSerialized ==
    /\ "_joins" \in DOMAIN ent
    /\ "posts" \in DOMAIN ent._joins.v
    /\ updates = MaxUpdates
    /\ rec.calls > 0
    /\ DOMAIN rec.record = DOMAIN ent \ {"_joins"}

\* ---------------------------------------------------------------------------
\* C19: building an instance from the record toDBRecord returned gives back
\* every field of a declared kind: a JSON field holding an object or an
\* array holds an equal one again, and a DATE field holding a date holds the
\* same instant, cut to whole seconds, whatever zone the process runs in.
Restored(key) ==
    CASE getPropertyType(key) = "json" /\ ent[key].t \in {"object", "array"} ->
             hydrated.fields[key] = ent[key]
      [] getPropertyType(key) = "date" /\ ent[key].t = "date" ->
             hydrated.fields[key] = DateV([s |-> ent[key].v.s, ms |-> 0])
      [] OTHER -> TRUE

RoundTripRestoresDeclaredFields ==
    hydrated.done => \A key \in DOMAIN ent \cap DOMAIN PropertyTypes : Restored(key)

CanonicalText(date) == Str(CalendarDate(date.v.s) \o " " \o CalendarTime(date.v.s))

Serialized == rec.calls > 0

DatesWrittenCanonically ==
    Serialized =>
        \A key \in DOMAIN ent \ {"_joins"} :
            /\ (ent[key].t = "date" /\ getPropertyType(key) # "json") =>
                   rec.record[key] = CanonicalText(ent[key])
            /\ ( /\ getPropertyType(key) = "date"
                 /\ ent[key].t \in {"string", "number"}
                 /\ newDate(ent[key]).t = "date" ) =>
                   /\ rec.record[key].t = "string"
                   /\ IsDateTimeText(rec.record[key].v)

\* C21 as stated: a date is written in that form whatever the declared kind
EveryDateWrittenCanonically ==
    Serialized =>
        \A key \in DOMAIN ent \ {"_joins"} :
            ent[key].t = "date" => rec.record[key] = CanonicalText(ent[key])

DatesOfEveryKindSerialized ==
    /\ Serialized
    /\ \A key \in {"email", "settings", "createdAt"} : key \in DOMAIN ent
    /\ ent.email.t = "date"
    /\ ent.settings.t = "date"
    /\ ent.createdAt.t \in {"string", "number"}
    /\ rec.record.email = Str(EpochText)
    /\ rec.record.createdAt.t = "string"
    /\ IsDateTimeText(rec.record.createdAt.v)

\* ---------------------------------------------------------------------------
\* C22: no update call changes the id of an instance that has one, so that
\* the UPDATE statement of DAO.update names the id the instance was built
\* with.
IdNeverChanges ==
    [][("id" \in DOMAIN ent /\ updates' = updates + 1) =>
          /\ "id" \in DOMAIN ent'
          /\ ent'.id = ent.id
          /\ update(ent', [kind |-> "error", error |-> QueryError]).dispatched[1].params[3]
                = ent.id]_vars

\* ---------------------------------------------------------------------------
\* C23: an update call assigns exactly the properties its argument names, to
\* the values given, and leaves every other property of the instance as it
\* was; it does so too when the instance no longer passes validate
\* afterwards.
Overwritten(before, attributes, after) ==
    /\ DOMAIN after = DOMAIN before \cup DOMAIN attributes
    /\ \A prop \in DOMAIN after :
          after[prop] = IF prop \in DOMAIN attributes THEN attributes[prop]
                        ELSE before[prop]

SetOverwritesNamedFieldsOnly ==
    [][updates' = updates + 1 =>
          \E attributes \in UpdateAttributes : Overwritten(ent, attributes, ent')]_vars

UpdatedIntoInvalidState ==
    /\ updates > 0
    /\ ent.username = Str("al")
    /\ validate(ent) # True
    /\ "email" \in DOMAIN ent
    /\ ent.email = Str("ann@example.com")

\* ---------------------------------------------------------------------------
\* C24: a statement of selectWhere or selectAll with n >= 1 ordering items
\* (those of the options, then those of each join) has one ORDER BY, the
\* n items separated by n - 1 commas, the items of the options qualified
\* with the table of the DAO and those of a join with the table they name
\* or else the table of the DAO.
RECURSIVE JoinOrderItems(_)
JoinOrderItems(joins) ==
    IF joins = << >> THEN << >>
    ELSE Opt(Head(joins), "orderBy", << >>) \o JoinOrderItems(Tail(joins))

\* the ordering items the call asks for; selectAll takes no joins
OrderItems ==
    Opt(op.options, "orderBy", << >>)
      \o (IF op.name = "selectWhere" THEN JoinOrderItems(Opt(op.options, "joins", << >>))
          ELSE << >>)

\* the part of the statement from ORDER BY up to LIMIT
OrderingText(sql) ==
    LET from  == CHOOSE i \in Positions(sql, " ORDER BY") :
                     \A j \in Positions(sql, " ORDER BY") : i <= j
        limit == Positions(sql, " LIMIT ")
    IN  SubSeq(sql, from, IF limit = {} THEN Len(sql)
                          ELSE (CHOOSE i \in limit : TRUE) - 1)

\* the parameters of the ordering items: those before the ones of LIMIT
OrderingParameters(statement, n) ==
    LET bound == Count(statement.sql, " LIMIT ") + Count(statement.sql, " OFFSET ")
        last  == Len(statement.params) - bound
    IN  SubSeq(statement.params, last - 2 * n + 1, last)

OrderedSelectDispatched ==
    /\ op.name \in {"selectWhere", "selectAll"}
    /\ Len(dispatched) = 1
    /\ Len(OrderItems) >= 1

OneOrderByWithCommas ==
    OrderedSelectDispatched =>
        LET n         == Len(OrderItems)
            statement == dispatched[1]
            bound     == OrderingParameters(statement, n)
        IN  /\ Count(statement.sql, " ORDER BY") = 1
            /\ Count(OrderingText(statement.sql), ", ") = n - 1
            /\ \A i \in 1..n :
                  /\ bound[2 * i - 1] = Str(Opt(OrderItems[i], "table", entityName))
                  /\ bound[2 * i] = Str(OrderItems[i].field)

\* ---------------------------------------------------------------------------
\* C25: a statement of selectWhere or selectAll has LIMIT ?, bound to
\* options.limit, exactly when the options give a limit, and OFFSET ?, bound
\* to options.offset, exactly when they give an offset.
Bound(statement, keyword) ==
    LET before == { i \in 1..Len(statement.sql) :
                      statement.sql[i] \in {"?", "??"}
                        /\ \E j \in Positions(statement.sql, keyword) : i <= j + 1 }
    IN  statement.params[Cardinality(before)]

LimitAndOffsetAsSpecified ==
    (op.name \in {"selectWhere", "selectAll"} /\ Len(dispatched) = 1) =>
        LET statement == dispatched[1]
        IN  /\ Count(statement.sql, " LIMIT ") = (IF "limit" \in DOMAIN op.options THEN 1 ELSE 0)
            /\ Count(statement.sql, " OFFSET ") = (IF "offset" \in DOMAIN op.options THEN 1 ELSE 0)
            /\ "limit" \in DOMAIN op.options =>
                   Bound(statement, " LIMIT ") = op.options.limit
            /\ "offset" \in DOMAIN op.options =>
                   Bound(statement, " OFFSET ") = op.options.offset

\* ---------------------------------------------------------------------------
\* C26: init gives every property of its argument a value.  A text in a
\* field declared JSON is replaced by what it parses to when that is an
\* object or an array, and kept otherwise; a text in a field declared DATE
\* is replaced by the date it names when it names one, and kept otherwise;
\* every other value is assigned as it is.
TextsOfObjects == {SettingsText, ListText, "{}"}

HydratedAsDeclared(key) ==
    LET raw   == rec.record[key]
        value == hydrated.fields[key]
    IN  CASE getPropertyType(key) = "json" /\ raw.t = "string" ->
                 IF raw.v \in TextsOfObjects THEN value.t \in {"object", "array"}
                 ELSE value = raw
          [] getPropertyType(key) = "date" /\ raw.t = "string" ->
                 IF IsDateTimeText(raw.v) THEN value.t = "date" ELSE value = raw
          [] OTHER -> value = raw

MalformedValuesKept ==
    hydrated.done =>
        /\ DOMAIN hydrated.fields = DOMAIN rec.record
        /\ \A key \in DOMAIN rec.record : HydratedAsDeclared(key)

MalformedRecordHydrated ==
    /\ hydrated.done
    /\ \A key \in {"settings", "createdAt"} : key \in DOMAIN rec.record
    /\ rec.record.settings = Str("5")
    /\ rec.record.createdAt = Str("soon")
    /\ hydrated.fields.settings = Str("5")
    /\ hydrated.fields.createdAt = Str("soon")

\* ---------------------------------------------------------------------------
\* C29: a field that is null or undefined is null in the record of
\* toDBRecord, whatever kind it is declared with.
AbsentValuesWrittenAsNull ==
    Serialized =>
        \A key \in DOMAIN ent \ {"_joins"} :
            ent[key].t \in {"null", "undefined"} => rec.record[key] = Null

\* ---------------------------------------------------------------------------
\* C27: when DAO.update ends with an EntityValidationError, the call has
\* dispatched no statement.
NoUpdateBeforeValidationError ==
    ( /\ op.name = "update"
      /\ ret.kind = "throw"
      /\ ret.value.name = "EntityValidationError" ) => dispatched = << >>

\* ---------------------------------------------------------------------------
\* C28: a statement of selectWhere that carries a condition, of the call or
\* of a join, has exactly one WHERE, and every AND of it comes after the
\* WHERE and after a condition.
JoinConditions ==
    { i \in 1..Len(Opt(op.options, "joins", << >>)) : "where" \in DOMAIN op.options.joins[i] }

ConditionsFollowOneWhere ==
    ( /\ op.name = "selectWhere"
      /\ Len(dispatched) = 1
      /\ (op.where # Null \/ JoinConditions # {}) ) =>
        LET sql == dispatched[1].sql
        IN  /\ Count(sql, " WHERE ") = 1
            /\ \A i \in Positions(sql, " AND ") :
                  \E w \in Positions(sql, " WHERE ") : w + 1 < i

\* ---------------------------------------------------------------------------
\* C30: rollback is called at most once, only on a connection the pool
\* handed out, only after beginTransaction was called on it, and only when
\* beginTransaction, the callback or commit failed; when both commit and
\* rollback were called, it is commit that failed, and rollback came after.
RollbackCalled == Count(txLog, "rollback") > 0
CommitCalled   == Count(txLog, "commit") > 0

RollbackFollowsAFailedStep ==
    /\ Count(txLog, "rollback") <= 1
    /\ RollbackCalled =>
          /\ connection = "conn"
          /\ Count(txLog, "beginTransaction") = 1
          /\ Before(txLog, "beginTransaction", "rollback")
          /\ txFailed \in {"beginTransaction", "callback", "commit"}
          /\ CommitCalled => (txFailed = "commit" /\ Before(txLog, "commit", "rollback"))
    /\ (txPc = "done" /\ connection = "conn" /\ txFailed # "none") => RollbackCalled
    /\ (txPc = "done" /\ txFailed = "none") => ~RollbackCalled

\* C30 as stated: rollback only after beginTransaction succeeded, and never
\* together with commit
RollbackOnlyAfterBeginNeverWithCommit ==
    /\ RollbackCalled => txFailed # "beginTransaction"
    /\ ~(RollbackCalled /\ CommitCalled)

RolledBackAfterFailedCommit ==
    /\ txPc = "done"
    /\ txFailed = "commit"
    /\ CommitCalled
    /\ RollbackCalled
    /\ txOutcome.kind = "throw"

====
